---- MODULE Spec2Model ----
(***************************************************************************)
(* Model of the real-time tweet streaming and clustering core of           *)
(* VeritasAI: StreamManager / TweetStream (services/stream_manager.py),    *)
(* the Nitter scraper generator (services/nitter_scraper.py), the SSE      *)
(* endpoint (routers/stream.py), as documented with code in                *)
(* src/unnamed/part_003.                                                   *)
(*                                                                         *)
(* Strings are sequences of one-character strings so that lower() and      *)
(* strip() are computed, not assumed.  Popularity scores are kept in units *)
(* of one half (likes + 2*retweets + 0.5*replies is stored doubled), which *)
(* keeps the 0.5 weight exact in integers.  Coordinates and offsets are    *)
(* kept in units of 1/50000 degree, the unit of the coordinate offset.     *)
(* Time is counted in ticks of 0.55 s (MinInterval = 1.1 s = 2 ticks).     *)
(***************************************************************************)
EXTENDS Integers, Sequences, FiniteSets, TLC

VARIABLES
    active_streams,   \* StreamManager.active_streams (set of registered ids)
    created,          \* number of streams created so far (fresh-id source)
    status,           \* per stream: "none" | "Running" | "Stopping" | "Stopped"
    seen_ids,         \* TweetStream.seen_ids
    clusters,         \* TweetStream.clusters : cluster_key -> cluster dict
    pc,               \* position of the TweetStream thread
    cur,              \* the tweet in flight, with its enrichment
    cluster_queues,   \* StreamManager.cluster_queues : per stream FIFO
    subs,             \* SSE generators: stream, state, events delivered
    enriched,         \* history: how often each tweet id was enriched
    folded,           \* history: the folds started, per stream, in order
    emitted,          \* history: number of cluster_callback invocations
    fatal,            \* history: a fatal source error ended the stream
    stopResult,       \* stream id and return value of the last StopStream
    geocode_cache,    \* lru_cache of geocode_location, least recently used first
    now,              \* the clock, in ticks
    next_eligible,    \* rate limiter: earliest time of the next acquisition
    holder,           \* rate limiter: the stream holding it (0: nobody)
    geocode_calls,    \* history: the requests sent to Nominatim, in order
    persistent_cache, \* the dictionary kept besides the lru_cache
    cache_uses,       \* history: the keys stored in or found in the lru_cache
    query,            \* TweetStream.query
    pulled,           \* history: the ids the scraper has yielded, in order
    streamId,         \* TwitterMapSection: stream id state (0: null)
    isStreaming,      \* TwitterMapSection: isStreaming state
    isLoading,        \* TwitterMapSection: isLoading state
    eventSources,     \* the EventSource objects created, with their readyState
    eventSourceRef,   \* eventSourceRef.current: index of an EventSource (0: null)
    mapClusters,      \* TwitterMapSection: the clusters Map
    stopCalls,        \* handleStopStream calls awaiting the reply to stop_stream
    startCall,        \* handleSearch awaiting the reply to start_stream
    mounted,          \* TwitterMapSection is mounted
    started,          \* history: number of streams the backend started for the client
    stop_sent,        \* history: the stream ids a stop_stream request was sent for
    received,         \* history: the messages received since the last search started
    \* PipelineScreen (part_002)
    pipelineInputs,   \* inputs: location.state.inputs or sessionStorage "pipelineInputs"
    analysisInitiated, \* analysisInitiated.current: keys type-id
    analysisResults,  \* image/video/textAnalysisResults: ids with a stored result, per type
    analyzing,        \* analyzingImages/Videos/Texts, per type
    runs,             \* the invocations of analyzeInputs, each with its closure
    fusionInitiated,
    isFusing,
    fusionResults,    \* fusionResults is set
    isComplete,
    fusionCall,       \* the fusion request awaiting its reply
    analysis_requests, \* history: analysis requests sent, per key
    fusion_requests,  \* history: fusion requests sent
    \* LandingPage
    inputs,           \* the input list
    isUploading,
    closureInputs,    \* inputs as handleAnalyzeAll captured them
    uploads,          \* the uploads of the invocation, per position of closureInputs
    analyzeCall,      \* where handleAnalyzeAll is
    route,            \* useLocation().pathname: the route shown
    navState,         \* location.state.inputs given to navigate
    ids_made,         \* history: input ids made
    files_stored      \* history: file ids the upload API gave out

\* the geocoding service: cache, rate limiter, clock
geo == <<geocode_cache, now, next_eligible, holder, geocode_calls,
        persistent_cache, cache_uses>>

\* the stream service
backend == <<active_streams, created, status, seen_ids, clusters, pc, cur,
             cluster_queues, subs, enriched, folded, emitted, fatal,
             stopResult, geo, query, pulled>>

\* the map section of the landing page
map_ui == <<streamId, isStreaming, isLoading, eventSources, eventSourceRef,
            mapClusters, stopCalls, startCall, mounted, started, stop_sent,
            received>>

\* the pipeline screen
pipeline_ui == <<pipelineInputs, analysisInitiated, analysisResults, analyzing,
                 runs, fusionInitiated, isFusing, fusionResults, isComplete,
                 fusionCall, analysis_requests, fusion_requests>>

\* the landing page
landing_ui == <<inputs, isUploading, closureInputs, uploads, analyzeCall,
                route, navState, ids_made, files_stored>>

\* the web client
ui == <<map_ui, pipeline_ui, landing_ui>>

vars == <<active_streams, created, status, seen_ids, clusters, pc, cur,
          cluster_queues, subs, enriched, folded, emitted, fatal, stopResult,
          geo, query, pulled, ui>>

----------------------------------------------------------------------------
(* Bounds *)

MaxStreams == 2
MaxTweets == 2
MaxSubs == 2

\* searches the map client starts, stop replies it may be awaiting at once,
\* messages it receives per search
MaxSearches == 3
MaxStopCalls == 2
MaxMessages == 3

\* times the mount effect of the pipeline screen runs
MaxRuns == 2

\* inputs added on the landing page, files the upload API stores
MaxInputs == 3
MaxFiles == 3

\* the heartbeats sent on a connection are counted modulo this number
HeartbeatWrap == 2
MaxTime == 4

StreamIds == 1..MaxStreams
TweetIds == 1..MaxTweets
\* the ids the timeline of a query can show at all
AllTweetIds == 1..(MaxTweets + 1)
\* and with them a tweet that is exactly as popular as another one
TieTweetIds == 1..(MaxTweets + 2)
SubIds == 1..MaxSubs

----------------------------------------------------------------------------
(* Strings *)

LowerChar(c) ==
    IF c = "A" THEN "a" ELSE IF c = "M" THEN "m" ELSE c

\* str.lower()
Lower(s) == [i \in DOMAIN s |-> LowerChar(s[i])]

RECURSIVE LStrip(_)
LStrip(s) == IF s # <<>> /\ Head(s) = " " THEN LStrip(Tail(s)) ELSE s

RECURSIVE RStrip(_)
RStrip(s) ==
    IF s # <<>> /\ s[Len(s)] = " " THEN RStrip(SubSeq(s, 1, Len(s) - 1)) ELSE s

\* str.strip()
Strip(s) == RStrip(LStrip(s))

\* response.text.strip().lower() of extract_location_llm
extract_location_llm(response) == Lower(Strip(response))

\* cluster_key with the topic taken as it came (lower() forgotten)
cluster_key_raw_topic(topic, location) == topic \o <<"_">> \o Lower(location)

\* cluster_key = f"{topic.lower()}_{location.lower()}"
cluster_key(topic, location) == Lower(topic) \o <<"_">> \o Lower(location)

----------------------------------------------------------------------------
(* Inputs *)

\* Topics extract_topic_llm may return for a tweet, the empty one included
Topics == { <<"a">>, <<"A">>, <<" ", "a">>, <<"m">>, <<>> }

\* Texts the language model may answer for the location of a tweet
LocationResponses == { <<"M">>, <<"m", " ">> }

\* One topic and one location, where the life of the streams is examined
OneTopic == { <<"a">> }
OneLocation == { <<"M">> }

\* The queries a search may be started with
Queries == { "blast", "rain" }
OneQuery == { "blast" }

\* The tweets the Nitter timeline can show.  Tweet 1 and 2 carry the
\* engagement counters 10/2/1 and 5/0/0; timestamps run against the ids.
\* The last tweet of all, the newest, is as popular as tweet 2 (4/0/2).
TweetOf(i) ==
    IF i <= MaxTweets + 1
    THEN [ tweet_id |-> i,
           likes |-> (15 - 5 * i) % 16,
           retweets |-> (4 - 2 * i) % 5,
           replies |-> i % 2,
           timestamp |-> (MaxTweets + 1) - i ]
    ELSE [ tweet_id |-> i,
           likes |-> 4,
           retweets |-> 0,
           replies |-> 2,
           timestamp |-> MaxTweets + 2 ]

NoTweet == [ tweet_id |-> 0 ]
None == <<>>

\* Nominatim's answer for a location string: (lat, lon), in units of
\* 1/50000 degree ("m": 19 N 72 E); no match gives None
Nominatim(location) ==
    IF location = <<"m">> THEN <<950000, 3600000>>
    ELSE None

\* Coordinates an enriched record may carry where the running mean is
\* examined, multiples of 60 units apart so that the mean of up to six of
\* them is a whole number of units
MeanCoords ==
    { <<950000, 3600000>>, <<950060, 3600120>>, <<950180, 3599940>> }

\* popularity with a reply weighing as much as a like
Popularity_full_reply(tweet) ==
    2 * tweet.likes + 4 * tweet.retweets + 2 * tweet.replies

\* popularity = likes + 2 * retweets + 0.5 * replies, in halves
Popularity(tweet) == 2 * tweet.likes + 4 * tweet.retweets + tweet.replies

----------------------------------------------------------------------------
(* Coordinate offset *)

\* hashlib.md5(cluster_key.encode()).hexdigest()[:8] for the keys that the
\* topics and locations above can form
md5_hexdigest8(key) ==
    IF key = <<"a", "_", "m">> THEN <<"1", "c", "c", "8", "c", "1", "5", "5">>
    ELSE IF key = <<" ", "a", "_", "m">>
         THEN <<"2", "e", "3", "b", "e", "6", "6", "4">>
    ELSE IF key = <<"m", "_", "m">>
         THEN <<"d", "e", "d", "f", "8", "2", "e", "4">>
    ELSE IF key = <<"_", "m">>
         THEN <<"b", "7", "8", "1", "a", "e", "8", "1">>
    ELSE IF key = <<"A", "_", "m">>
         THEN <<"8", "c", "6", "e", "e", "b", "9", "d">>
    ELSE <<"5", "f", "8", "9", "8", "3", "7", "9">>

HexVal(c) ==
    CASE c = "0" -> 0 [] c = "1" -> 1 [] c = "2" -> 2 [] c = "3" -> 3
      [] c = "4" -> 4 [] c = "5" -> 5 [] c = "6" -> 6 [] c = "7" -> 7
      [] c = "8" -> 8 [] c = "9" -> 9 [] c = "a" -> 10 [] c = "b" -> 11
      [] c = "c" -> 12 [] c = "d" -> 13 [] c = "e" -> 14 [] c = "f" -> 15

\* int(hex, 16) modulo 2000 * 2000: the two offsets use hash_value % 2000
\* and (hash_value // 2000) % 2000, both functions of this residue, and the
\* residue stays within 32 bits where hash_value itself does not
RECURSIVE HashResidue(_, _)
HashResidue(hex, acc) ==
    IF hex = <<>> THEN acc
    ELSE HashResidue(Tail(hex), (acc * 16 + HexVal(Head(hex))) % 4000000)

hash_value(key) == HashResidue(md5_hexdigest8(key), 0)

\* offset_lat = (hash_value % 2000 - 1000) / 50000.0, in 1/50000 degree
offset_lat(key) == (hash_value(key) % 2000) - 1000

\* offset_lon = ((hash_value // 2000) % 2000 - 1000) / 50000.0
offset_lon(key) == ((hash_value(key) \div 2000) % 2000) - 1000

----------------------------------------------------------------------------
(* Helpers *)

Max(a, b) == IF a >= b THEN a ELSE b

\* the bounded maximum of a members list ("e.g. 50"), on the scale of the
\* tweets of the model
MaxMembers == 2

\* the tweet at the head of the list, taken for the most-liked one
MostLiked_head(tweets) == Head(tweets)

\* the most-liked tweet of a list: the first one with the highest like count
RECURSIVE MostLiked(_)
MostLiked(tweets) ==
    IF Len(tweets) = 1 THEN Head(tweets)
    ELSE LET rest == MostLiked(Tail(tweets))
         IN IF rest.likes > Head(tweets).likes THEN rest ELSE Head(tweets)

\* the order of top_tweets: the more popular tweet first, of equally
\* popular ones the one with the earlier timestamp
Before(a, b) ==
    \/ Popularity(a) > Popularity(b)
    \/ Popularity(a) = Popularity(b) /\ a.timestamp < b.timestamp

\* the tweet is added to top_tweets and the list is sorted by popularity,
\* descending
RECURSIVE InsertSorted(_, _)
InsertSorted(tweets, tw) ==
    IF tweets = <<>> THEN <<tw>>
    ELSE IF Before(tw, Head(tweets))
         THEN <<tw>> \o tweets
         ELSE <<Head(tweets)>> \o InsertSorted(Tail(tweets), tw)

\* lat = base_lat + offset_lat, lon = base_lon + offset_lon
lat(tw) == tw.coords[1] + offset_lat(cluster_key(tw.topic, tw.location))
lon(tw) == tw.coords[2] + offset_lon(cluster_key(tw.topic, tw.location))

\* the cluster dict with the clusters of all streams counted for its id
NewCluster_counting_all(s, tw) ==
    [ cluster_id |-> <<s, Cardinality(DOMAIN clusters[1])
                            + Cardinality(DOMAIN clusters[MaxStreams])>>,
      centroid_lat |-> lat(tw),
      centroid_lon |-> lon(tw),
      headline |-> tw.tweet_id,
      top_tweets |-> <<tw>>,
      popularity_score |-> Popularity(tw),
      last_seen |-> tw.timestamp,
      tweet_count |-> 1,
      location |-> tw.location,
      topic |-> tw.topic ]

\* the cluster dict with the ordinal of its id counted from one
NewCluster_ordinal_from_one(s, tw) ==
    [ cluster_id |-> <<s, Cardinality(DOMAIN clusters[s]) + 1>>,
      centroid_lat |-> lat(tw),
      centroid_lon |-> lon(tw),
      headline |-> tw.tweet_id,
      top_tweets |-> <<tw>>,
      popularity_score |-> Popularity(tw),
      last_seen |-> tw.timestamp,
      tweet_count |-> 1,
      location |-> tw.location,
      topic |-> tw.topic ]

\* the cluster dict built for the first tweet of a key; the pair stands for
\* cluster_id = f"{stream_id}_{len(clusters)}"
NewCluster(s, tw) ==
    [ cluster_id |-> <<s, Cardinality(DOMAIN clusters[s])>>,
      centroid_lat |-> lat(tw),
      centroid_lon |-> lon(tw),
      headline |-> tw.tweet_id,
      top_tweets |-> <<tw>>,
      popularity_score |-> Popularity(tw),
      last_seen |-> tw.timestamp,
      tweet_count |-> 1,
      location |-> tw.location,
      topic |-> tw.topic ]

\* Cluster Updates 1-2: increment tweet count, add popularity score
UpdateStats(c, tw) ==
    [ c EXCEPT !.tweet_count = @ + 1,
               !.popularity_score = @ + Popularity(tw) ]

\* the centroid averaged with the tweet's coordinates as Nominatim gave
\* them, without the offset of the key
UpdateCentroid_raw_coords(c, tw) ==
    [ c EXCEPT !.centroid_lat =
                   (@ * (c.tweet_count - 1) + tw.coords[1]) \div c.tweet_count,
               !.centroid_lon =
                   (@ * (c.tweet_count - 1) + tw.coords[2]) \div c.tweet_count ]

\* the centroid moved half-way to the tweet's position
UpdateCentroid_midpoint(c, tw) ==
    [ c EXCEPT !.centroid_lat = (@ + lat(tw)) \div 2,
               !.centroid_lon = (@ + lon(tw)) \div 2 ]

\* Cluster Updates 3: the centroid is the average, weighted by the tweet
\* count, of the centroid so far and the tweet's position lat, lon
UpdateCentroid(c, tw) ==
    [ c EXCEPT !.centroid_lat =
                   (@ * (c.tweet_count - 1) + lat(tw)) \div c.tweet_count,
               !.centroid_lon =
                   (@ * (c.tweet_count - 1) + lon(tw)) \div c.tweet_count ]

\* the update with top_tweets cut down to its MaxMembers first tweets
UpdateMembers_truncating(c, tw) ==
    LET all == InsertSorted(c.top_tweets, tw)
        tops == IF Len(all) > MaxMembers THEN SubSeq(all, 1, MaxMembers)
                ELSE all
    IN [ UpdateCentroid(c, tw) EXCEPT
               !.top_tweets = tops,
               !.headline = MostLiked(tops).tweet_id,
               !.last_seen = Max(@, tw.timestamp) ]

\* the update with last_seen set to the timestamp of the tweet that came
\* last
UpdateMembers_last_arrival(c, tw) ==
    LET tops == InsertSorted(c.top_tweets, tw) IN
    [ UpdateCentroid(c, tw) EXCEPT
               !.top_tweets = tops,
               !.headline = MostLiked(tops).tweet_id,
               !.last_seen = tw.timestamp ]

\* Cluster Updates 3-5: centroid, top_tweets sorted by popularity,
\* headline = the most-liked tweet
UpdateMembers(c, tw) ==
    LET tops == InsertSorted(c.top_tweets, tw) IN
    [ UpdateCentroid(c, tw) EXCEPT
               !.top_tweets = tops,
               !.headline = MostLiked(tops).tweet_id,
               !.last_seen = Max(@, tw.timestamp) ]

\* StreamManager.is_stream_active
is_stream_active(s) == s \in active_streams

\* TweetStream.running
running(s) == status[s] = "Running"

----------------------------------------------------------------------------
(* Initial state of the web client *)

\* TwitterMapSection as it is mounted: useState/useRef initial values
InitMap ==
    /\ streamId = 0
    /\ isStreaming = FALSE
    /\ isLoading = FALSE
    /\ eventSources = <<>>
    /\ eventSourceRef = 0
    /\ mapClusters = <<>>
    /\ stopCalls = 0
    /\ startCall = "none"
    /\ mounted = TRUE
    /\ started = 0
    /\ stop_sent = {}
    /\ received = <<>>

InputTypes == {"image", "video", "text"}

\* PipelineScreen as it is mounted with the inputs l
InitPipeline(l) ==
    /\ pipelineInputs = l
    /\ analysisInitiated = {}
    /\ analysisResults = [ty \in InputTypes |-> {}]
    /\ analyzing = [ty \in InputTypes |-> {}]
    /\ runs = <<>>
    /\ fusionInitiated = FALSE
    /\ isFusing = FALSE
    /\ fusionResults = FALSE
    /\ isComplete = FALSE
    /\ fusionCall = "none"
    /\ analysis_requests = <<>>
    /\ fusion_requests = 0

\* LandingPage as it is mounted
InitLanding ==
    /\ inputs = <<>>
    /\ isUploading = FALSE
    /\ closureInputs = <<>>
    /\ uploads = <<>>
    /\ analyzeCall = "none"
    /\ route = "/"
    /\ navState = <<>>
    /\ ids_made = 0
    /\ files_stored = 0

InitUI == InitMap /\ InitPipeline(<<>>) /\ InitLanding

----------------------------------------------------------------------------
(* Initial state: a StreamManager with no stream, nobody subscribed *)

\* the StreamManager and the geocoder as they are constructed
InitBackend ==
    /\ active_streams = {}
    /\ created = 0
    /\ status = [s \in StreamIds |-> "none"]
    /\ seen_ids = [s \in StreamIds |-> {}]
    /\ clusters = [s \in StreamIds |-> <<>>]
    /\ pc = [s \in StreamIds |-> "none"]
    /\ cur = [s \in StreamIds |-> NoTweet]
    /\ cluster_queues = [s \in StreamIds |-> <<>>]
    /\ subs = [u \in SubIds |-> [stream |-> 0, state |-> "none",
                                 events |-> <<>>, heartbeats |-> 0]]
    /\ enriched = [s \in StreamIds |-> [i \in TieTweetIds |-> 0]]
    /\ folded = [s \in StreamIds |-> <<>>]
    /\ emitted = [s \in StreamIds |-> 0]
    /\ fatal = [s \in StreamIds |-> FALSE]
    /\ stopResult = [stream_id |-> 0, success |-> FALSE]
    /\ geocode_cache = <<>>
    /\ now = 0
    /\ next_eligible = 0
    /\ holder = 0
    /\ geocode_calls = <<>>
    /\ persistent_cache = <<>>
    /\ cache_uses = <<>>
    /\ query = [s \in StreamIds |-> ""]
    /\ pulled = [s \in StreamIds |-> <<>>]

Init == InitBackend /\ InitUI

----------------------------------------------------------------------------
(* StreamManager *)

\* create_stream that starts the stream without registering it
create_stream_unregistered(q) ==
    /\ created < MaxStreams
    /\ LET s == created + 1 IN
         /\ created' = s
         /\ cluster_queues' = [cluster_queues EXCEPT ![s] = <<>>]
         /\ status' = [status EXCEPT ![s] = "Running"]
         /\ pc' = [pc EXCEPT ![s] = "pull"]
         /\ query' = [query EXCEPT ![s] = q]
    /\ UNCHANGED <<active_streams, seen_ids, clusters, cur, subs, enriched,
                   folded, emitted, fatal, stopResult, geo, pulled, ui>>

\* create_stream that hands out the stream already running for the query
\* when there is one, and makes a stream only for a query not yet running
create_stream_once_per_query(q) ==
    /\ created < MaxStreams
    /\ IF \E t \in active_streams : query[t] = q /\ status[t] = "Running"
       THEN UNCHANGED <<created, cluster_queues, active_streams, status, pc,
                        query, pulled>>
       ELSE LET s == created + 1 IN
              /\ created' = s
              /\ cluster_queues' = [cluster_queues EXCEPT ![s] = <<>>]
              /\ active_streams' = active_streams \cup {s}
              /\ status' = [status EXCEPT ![s] = "Running"]
              /\ pc' = [pc EXCEPT ![s] = "pull"]
              /\ query' = [query EXCEPT ![s] = q]
    /\ UNCHANGED <<seen_ids, clusters, cur, subs, enriched, folded, emitted, fatal,
                   stopResult, geo, pulled, ui>>

\* create_stream(query): a fresh id (uuid4: an id no stream was given
\* before), a queue, the stream registered and started
create_stream(q) ==
    /\ created < MaxStreams
    /\ LET s == created + 1 IN
         /\ created' = s
         /\ cluster_queues' = [cluster_queues EXCEPT ![s] = <<>>]
         /\ active_streams' = active_streams \cup {s}
         /\ status' = [status EXCEPT ![s] = "Running"]
         /\ pc' = [pc EXCEPT ![s] = "pull"]
         /\ query' = [query EXCEPT ![s] = q]
    /\ UNCHANGED <<seen_ids, clusters, cur, subs, enriched, folded, emitted, fatal,
                   stopResult, geo, pulled, ui>>

\* StopStream succeeding for every registered stream, whatever its status
StopStream_any_status(id) ==
    IF id \in active_streams
    THEN /\ status' = [status EXCEPT ![id] = "Stopping"]
         /\ stopResult' = [stream_id |-> id, success |-> TRUE]
         /\ UNCHANGED <<active_streams, created, seen_ids, clusters, pc, cur,
                        cluster_queues, subs, enriched, folded, emitted, fatal, geo, query, pulled, ui>>
    ELSE /\ stopResult' = [stream_id |-> id, success |-> FALSE]
         /\ UNCHANGED <<active_streams, created, status, seen_ids, clusters,
                        pc, cur, cluster_queues, subs, enriched, folded,
                        emitted, fatal, geo, query, pulled, ui>>

\* StopStream(streamId) -> success
StopStream(id) ==
    IF id \in active_streams /\ status[id] = "Running"
    THEN /\ status' = [status EXCEPT ![id] = "Stopping"]
         /\ stopResult' = [stream_id |-> id, success |-> TRUE]
         /\ UNCHANGED <<active_streams, created, seen_ids, clusters, pc, cur,
                        cluster_queues, subs, enriched, folded, emitted, fatal, geo, query, pulled, ui>>
    ELSE /\ stopResult' = [stream_id |-> id, success |-> FALSE]
         /\ UNCHANGED <<active_streams, created, status, seen_ids, clusters,
                        pc, cur, cluster_queues, subs, enriched, folded, emitted, fatal, geo, query, pulled, ui>>

\* the entry of a stopped stream is released; its clusters go with it
ReleaseStream(s) ==
    /\ s \in active_streams
    /\ status[s] = "Stopped"
    /\ active_streams' = active_streams \ {s}
    /\ clusters' = [clusters EXCEPT ![s] = <<>>]
    /\ UNCHANGED <<created, status, seen_ids, pc, cur, cluster_queues, subs,
                   enriched, folded, emitted, fatal, stopResult, geo, query, pulled, ui>>

----------------------------------------------------------------------------
(* Nitter scraper and the TweetStream thread *)

\* scrape_nitter_search yielding every item, seen or not
scrape_nitter_search_no_filter(s, i) ==
    /\ pc[s] = "pull"
    /\ seen_ids' = [seen_ids EXCEPT ![s] = @ \cup {i}]
    /\ cur' = [cur EXCEPT ![s] = TweetOf(i)]
    /\ pc' = [pc EXCEPT ![s] = "check"]
    /\ pulled' = [pulled EXCEPT ![s] = Append(@, i)]
    /\ UNCHANGED <<active_streams, created, status, clusters, cluster_queues,
                   subs, enriched, folded, emitted, fatal, stopResult, geo,
                   query, ui>>

\* a scraper that is asked for the next tweet as soon as the tweet in hand
\* is in its cluster, before the cluster has been published
scrape_nitter_search_ahead(s, i) ==
    /\ pc[s] \in {"pull", "emit"}
    /\ IF i \notin seen_ids[s]
       THEN /\ seen_ids' = [seen_ids EXCEPT ![s] = @ \cup {i}]
            /\ cur' = [cur EXCEPT ![s] = TweetOf(i)]
            /\ pc' = [pc EXCEPT ![s] = "check"]
            /\ pulled' = [pulled EXCEPT ![s] = Append(@, i)]
       ELSE UNCHANGED <<seen_ids, cur, pc, pulled>>
    /\ UNCHANGED <<active_streams, created, status, clusters, cluster_queues,
                   subs, enriched, folded, emitted, fatal, stopResult, geo,
                   query, ui>>

\* the scraper with one seen_ids set for all the streams
scrape_nitter_search_shared_seen(s, i) ==
    /\ pc[s] = "pull"
    /\ IF i \notin seen_ids[s]
       THEN /\ seen_ids' = [x \in StreamIds |-> seen_ids[x] \cup {i}]
            /\ cur' = [cur EXCEPT ![s] = TweetOf(i)]
            /\ pc' = [pc EXCEPT ![s] = "check"]
            /\ pulled' = [pulled EXCEPT ![s] = Append(@, i)]
       ELSE UNCHANGED <<seen_ids, cur, pc, pulled>>
    /\ UNCHANGED <<active_streams, created, status, clusters, cluster_queues,
                   subs, enriched, folded, emitted, fatal, stopResult, geo,
                   query, ui>>

\* scrape_nitter_search: the generator looks at one timeline item; an id not
\* in seen_ids is added and yielded, any other item is passed over.  The
\* timeline may show any tweet at any time (replays, any order).
scrape_nitter_search(s, i) ==
    /\ pc[s] = "pull"
    /\ IF i \notin seen_ids[s]
       THEN /\ seen_ids' = [seen_ids EXCEPT ![s] = @ \cup {i}]
            /\ cur' = [cur EXCEPT ![s] = TweetOf(i)]
            /\ pc' = [pc EXCEPT ![s] = "check"]
            /\ pulled' = [pulled EXCEPT ![s] = Append(@, i)]
       ELSE UNCHANGED <<seen_ids, cur, pc, pulled>>
    /\ UNCHANGED <<active_streams, created, status, clusters, cluster_queues,
                   subs, enriched, folded, emitted, fatal, stopResult, geo,
                   query, ui>>

\* _run_stream ending the stream when a tweet gets no coordinates
_run_stream_failure_stops(s, topics, locations) ==
    /\ pc[s] = "check"
    /\ IF ~running(s)
       THEN /\ status' = [status EXCEPT ![s] = "Stopped"]
            /\ pc' = [pc EXCEPT ![s] = "done"]
            /\ cur' = [cur EXCEPT ![s] = NoTweet]
            /\ UNCHANGED enriched
       ELSE /\ \E lr \in locations, tr \in topics, reachable \in BOOLEAN :
                 LET location == extract_location_llm(lr)
                     topic == tr
                     coords == IF reachable THEN Nominatim(location) ELSE None
                 IN IF coords = None
                    THEN /\ cur' = [cur EXCEPT ![s] = NoTweet]
                         /\ pc' = [pc EXCEPT ![s] = "done"]
                         /\ status' = [status EXCEPT ![s] = "Stopped"]
                    ELSE /\ cur' = [cur EXCEPT ![s] =
                                      [ tweet_id |-> @.tweet_id,
                                        likes |-> @.likes,
                                        retweets |-> @.retweets,
                                        replies |-> @.replies,
                                        timestamp |-> @.timestamp,
                                        location |-> location,
                                        topic |-> topic,
                                        coords |-> coords ]]
                         /\ pc' = [pc EXCEPT ![s] = "fold"]
                         /\ UNCHANGED status
            /\ enriched' = [enriched EXCEPT ![s][cur[s].tweet_id] = @ + 1]
    /\ UNCHANGED <<active_streams, created, seen_ids, clusters, cluster_queues,
                   subs, folded, emitted, fatal, stopResult, geo, query, pulled, ui>>

\* _run_stream forgetting the id of a tweet that got no coordinates, so that
\* the tweet is taken up again when the timeline shows it the next time
_run_stream_retry_dropped(s, topics, locations) ==
    /\ pc[s] = "check"
    /\ IF ~running(s)
       THEN /\ status' = [status EXCEPT ![s] = "Stopped"]
            /\ pc' = [pc EXCEPT ![s] = "done"]
            /\ cur' = [cur EXCEPT ![s] = NoTweet]
            /\ UNCHANGED <<enriched, seen_ids>>
       ELSE /\ \E lr \in locations, tr \in topics, reachable \in BOOLEAN :
                 LET location == extract_location_llm(lr)
                     topic == tr
                     coords == IF reachable THEN Nominatim(location) ELSE None
                 IN IF coords = None
                    THEN /\ cur' = [cur EXCEPT ![s] = NoTweet]
                         /\ pc' = [pc EXCEPT ![s] = "pull"]
                         /\ seen_ids' = [seen_ids EXCEPT ![s] =
                                            @ \ {cur[s].tweet_id}]
                    ELSE /\ cur' = [cur EXCEPT ![s] =
                                      [ tweet_id |-> @.tweet_id,
                                        likes |-> @.likes,
                                        retweets |-> @.retweets,
                                        replies |-> @.replies,
                                        timestamp |-> @.timestamp,
                                        location |-> location,
                                        topic |-> topic,
                                        coords |-> coords ]]
                         /\ pc' = [pc EXCEPT ![s] = "fold"]
                         /\ UNCHANGED seen_ids
            /\ enriched' = [enriched EXCEPT ![s][cur[s].tweet_id] = @ + 1]
            /\ UNCHANGED status
    /\ UNCHANGED <<active_streams, created, clusters, cluster_queues,
                   subs, folded, emitted, fatal, stopResult, geo, query, pulled, ui>>

\* _run_stream, loop body: "if not self.running: break", else _process_tweet
\* up to the popularity score (location, topic, geocoding).  A tweet without
\* coordinates is not clustered.  extract_topic_llm returns one of `topics`,
\* the language model names one of `locations`; Nominatim may be unreachable.
_run_stream(s, topics, locations) ==
    /\ pc[s] = "check"
    /\ IF ~running(s)
       THEN /\ status' = [status EXCEPT ![s] = "Stopped"]
            /\ pc' = [pc EXCEPT ![s] = "done"]
            /\ cur' = [cur EXCEPT ![s] = NoTweet]
            /\ UNCHANGED enriched
       ELSE /\ \E lr \in locations, tr \in topics, reachable \in BOOLEAN :
                 LET location == extract_location_llm(lr)
                     topic == tr
                     coords == IF reachable THEN Nominatim(location) ELSE None
                 IN IF coords = None
                    THEN /\ cur' = [cur EXCEPT ![s] = NoTweet]
                         /\ pc' = [pc EXCEPT ![s] = "pull"]
                    ELSE /\ cur' = [cur EXCEPT ![s] =
                                      [ tweet_id |-> @.tweet_id,
                                        likes |-> @.likes,
                                        retweets |-> @.retweets,
                                        replies |-> @.replies,
                                        timestamp |-> @.timestamp,
                                        location |-> location,
                                        topic |-> topic,
                                        coords |-> coords ]]
                         /\ pc' = [pc EXCEPT ![s] = "fold"]
            /\ enriched' = [enriched EXCEPT ![s][cur[s].tweet_id] = @ + 1]
            /\ UNCHANGED status
    /\ UNCHANGED <<active_streams, created, seen_ids, clusters, cluster_queues,
                   subs, folded, emitted, fatal, stopResult, geo, query, pulled, ui>>

\* _process_tweet, steps 1-4, for a tweet the scraper yields: the record
\* reaches step 5 with the given topic, location and coordinates
EnrichedRecord(s, i, topic, location, coords) ==
    /\ pc[s] = "pull"
    /\ running(s)
    /\ i \notin seen_ids[s]
    /\ seen_ids' = [seen_ids EXCEPT ![s] = @ \cup {i}]
    /\ pulled' = [pulled EXCEPT ![s] = Append(@, i)]
    /\ enriched' = [enriched EXCEPT ![s][i] = @ + 1]
    /\ cur' = [cur EXCEPT ![s] =
                 [ tweet_id |-> i,
                   likes |-> TweetOf(i).likes,
                   retweets |-> TweetOf(i).retweets,
                   replies |-> TweetOf(i).replies,
                   timestamp |-> TweetOf(i).timestamp,
                   location |-> location,
                   topic |-> topic,
                   coords |-> coords ]]
    /\ pc' = [pc EXCEPT ![s] = "fold"]
    /\ UNCHANGED <<active_streams, created, status, clusters, cluster_queues,
                   subs, folded, emitted, fatal, stopResult, geo, query, ui>>

\* _process_tweet passing over a tweet whose topic or location is empty
_process_tweet_skip_empty(s) ==
    /\ pc[s] = "fold"
    /\ LET key == cluster_key(cur[s].topic, cur[s].location) IN
         IF cur[s].topic = <<>> \/ cur[s].location = <<>>
         THEN /\ pc' = [pc EXCEPT ![s] = "pull"]
              /\ cur' = [cur EXCEPT ![s] = NoTweet]
              /\ UNCHANGED <<clusters, folded>>
         ELSE /\ IF key \in DOMAIN clusters[s]
                 THEN /\ clusters' = [clusters EXCEPT ![s][key] =
                                         UpdateStats(@, cur[s])]
                      /\ pc' = [pc EXCEPT ![s] = "members"]
                 ELSE /\ clusters' = [clusters EXCEPT ![s] =
                                        (key :> NewCluster(s, cur[s])) @@ @]
                      /\ pc' = [pc EXCEPT ![s] = "emit"]
              /\ folded' = [folded EXCEPT ![s] =
                               Append(@, [tweet_id |-> cur[s].tweet_id,
                                          key |-> key,
                                          popularity |-> Popularity(cur[s]),
                                          record |-> cur[s]])]
              /\ UNCHANGED cur
    /\ UNCHANGED <<active_streams, created, status, seen_ids,
                   cluster_queues, subs, enriched, emitted, fatal, stopResult,
                   geo, query, pulled, ui>>

\* _process_tweet, step 5: create the cluster of a new key, or begin the
\* update of an existing one (tweet count, popularity score)
_process_tweet(s) ==
    /\ pc[s] = "fold"
    /\ LET key == cluster_key(cur[s].topic, cur[s].location) IN
         /\ IF key \in DOMAIN clusters[s]
            THEN /\ clusters' = [clusters EXCEPT ![s][key] = UpdateStats(@, cur[s])]
                 /\ pc' = [pc EXCEPT ![s] = "members"]
            ELSE /\ clusters' = [clusters EXCEPT ![s] =
                                   (key :> NewCluster(s, cur[s])) @@ @]
                 /\ pc' = [pc EXCEPT ![s] = "emit"]
         /\ folded' = [folded EXCEPT ![s] =
                          Append(@, [tweet_id |-> cur[s].tweet_id, key |-> key,
                                     popularity |-> Popularity(cur[s]),
                                     record |-> cur[s]])]
    /\ UNCHANGED <<active_streams, created, status, seen_ids, cur,
                   cluster_queues, subs, enriched, emitted, fatal, stopResult, geo, query, pulled, ui>>

\* update_cluster giving the tweet up when the stream is being stopped
update_cluster_abort_on_stop(s) ==
    /\ pc[s] = "members"
    /\ IF running(s)
       THEN /\ LET key == cluster_key(cur[s].topic, cur[s].location) IN
                 clusters' = [clusters EXCEPT ![s][key] = UpdateMembers(@, cur[s])]
            /\ pc' = [pc EXCEPT ![s] = "emit"]
            /\ UNCHANGED cur
       ELSE /\ pc' = [pc EXCEPT ![s] = "pull"]
            /\ cur' = [cur EXCEPT ![s] = NoTweet]
            /\ UNCHANGED clusters
    /\ UNCHANGED <<active_streams, created, status, seen_ids, cluster_queues,
                   subs, enriched, folded, emitted, fatal, stopResult, geo, query, pulled, ui>>

\* update_cluster that ends the fold without an event for the cluster
update_cluster_skips_emit(s) ==
    /\ pc[s] = "members"
    /\ LET key == cluster_key(cur[s].topic, cur[s].location) IN
         clusters' = [clusters EXCEPT ![s][key] = UpdateMembers(@, cur[s])]
    /\ pc' = [pc EXCEPT ![s] = "pull"]
    /\ cur' = [cur EXCEPT ![s] = NoTweet]
    /\ UNCHANGED <<active_streams, created, status, seen_ids,
                   cluster_queues, subs, enriched, folded, emitted, fatal,
                   stopResult, geo, query, pulled, ui>>

\* the update of an existing cluster continued: centroid, top_tweets,
\* headline, last_seen
update_cluster(s) ==
    /\ pc[s] = "members"
    /\ LET key == cluster_key(cur[s].topic, cur[s].location) IN
         clusters' = [clusters EXCEPT ![s][key] = UpdateMembers(@, cur[s])]
    /\ pc' = [pc EXCEPT ![s] = "emit"]
    /\ UNCHANGED <<active_streams, created, status, seen_ids, cur,
                   cluster_queues, subs, enriched, folded, emitted, fatal, stopResult, geo, query, pulled, ui>>

\* cluster_callback on a queue of one slot whose put() waits while it is full
cluster_callback_blocking(s) ==
    /\ pc[s] = "emit"
    /\ Len(cluster_queues[s]) < 1
    /\ LET key == cluster_key(cur[s].topic, cur[s].location) IN
         cluster_queues' = [cluster_queues EXCEPT ![s] = Append(@, clusters[s][key])]
    /\ emitted' = [emitted EXCEPT ![s] = @ + 1]
    /\ cur' = [cur EXCEPT ![s] = NoTweet]
    /\ pc' = [pc EXCEPT ![s] = "pull"]
    /\ UNCHANGED <<active_streams, created, status, seen_ids, clusters, subs,
                   enriched, folded, fatal, stopResult, geo, query, pulled, ui>>

\* cluster_callback on a queue of one slot that gives up its oldest entry
cluster_callback_drop_oldest(s) ==
    /\ pc[s] = "emit"
    /\ LET key == cluster_key(cur[s].topic, cur[s].location) IN
         cluster_queues' = [cluster_queues EXCEPT ![s] = <<clusters[s][key]>>]
    /\ emitted' = [emitted EXCEPT ![s] = @ + 1]
    /\ cur' = [cur EXCEPT ![s] = NoTweet]
    /\ pc' = [pc EXCEPT ![s] = "pull"]
    /\ UNCHANGED <<active_streams, created, status, seen_ids, clusters, subs,
                   enriched, folded, fatal, stopResult, geo, query, pulled, ui>>

\* cluster_callback putting the cluster at the head of the queue
cluster_callback_push_front(s) ==
    /\ pc[s] = "emit"
    /\ LET key == cluster_key(cur[s].topic, cur[s].location) IN
         cluster_queues' = [cluster_queues EXCEPT ![s] = <<clusters[s][key]>> \o @]
    /\ emitted' = [emitted EXCEPT ![s] = @ + 1]
    /\ cur' = [cur EXCEPT ![s] = NoTweet]
    /\ pc' = [pc EXCEPT ![s] = "pull"]
    /\ UNCHANGED <<active_streams, created, status, seen_ids, clusters, subs,
                   enriched, folded, fatal, stopResult, geo, query, pulled, ui>>

\* Cluster Updates 6: the cluster is pushed to the stream's queue
cluster_callback(s) ==
    /\ pc[s] = "emit"
    /\ LET key == cluster_key(cur[s].topic, cur[s].location) IN
         cluster_queues' = [cluster_queues EXCEPT ![s] = Append(@, clusters[s][key])]
    /\ emitted' = [emitted EXCEPT ![s] = @ + 1]
    /\ cur' = [cur EXCEPT ![s] = NoTweet]
    /\ pc' = [pc EXCEPT ![s] = "pull"]
    /\ UNCHANGED <<active_streams, created, status, seen_ids, clusters, subs,
                   enriched, folded, fatal, stopResult, geo, query, pulled, ui>>

----------------------------------------------------------------------------
(* Source errors *)

\* a transient source error: the stream waits (backoff) before it reconnects
TransientSourceError(s) ==
    /\ pc[s] = "pull"
    /\ pc' = [pc EXCEPT ![s] = "backoff"]
    /\ UNCHANGED <<active_streams, created, status, seen_ids, clusters, cur,
                   cluster_queues, subs, enriched, folded, emitted, fatal, stopResult, geo, query, pulled, ui>>

\* a reconnect that starts the scraper with a fresh seen_ids set
Reconnect_fresh_seen_ids(s) ==
    /\ pc[s] = "backoff"
    /\ pc' = [pc EXCEPT ![s] = "pull"]
    /\ seen_ids' = [seen_ids EXCEPT ![s] = {}]
    /\ UNCHANGED <<active_streams, created, status, clusters, cur,
                   cluster_queues, subs, enriched, folded, emitted, fatal,
                   stopResult, geo, query, pulled, ui>>

\* the reconnect after the backoff; seen_ids is kept
Reconnect(s) ==
    /\ pc[s] = "backoff"
    /\ pc' = [pc EXCEPT ![s] = "pull"]
    /\ UNCHANGED <<active_streams, created, status, seen_ids, clusters, cur,
                   cluster_queues, subs, enriched, folded, emitted, fatal, stopResult, geo, query, pulled, ui>>

\* a terminal source error that is noted and otherwise passed over
FatalSourceError_swallowed(s) ==
    /\ pc[s] = "pull"
    /\ fatal' = [fatal EXCEPT ![s] = TRUE]
    /\ UNCHANGED <<active_streams, created, status, seen_ids, clusters, pc,
                   cur, cluster_queues, subs, enriched, folded, emitted,
                   stopResult, geo, query, pulled, ui>>

\* a terminal source error ends the stream
FatalSourceError(s) ==
    /\ pc[s] = "pull"
    /\ status' = [status EXCEPT ![s] = "Stopped"]
    /\ fatal' = [fatal EXCEPT ![s] = TRUE]
    /\ pc' = [pc EXCEPT ![s] = "done"]
    /\ UNCHANGED <<active_streams, created, seen_ids, clusters, cur,
                   cluster_queues, subs, enriched, folded, emitted, stopResult, geo, query, pulled, ui>>

----------------------------------------------------------------------------
(* Geocoding: _process_tweet with geocode_location_cached taken step by    *)
(* step (cache lookup, rate limiter, request to Nominatim)                 *)

\* seconds between two requests (1.1 s), in ticks
MinInterval == 2

\* lru_cache(maxsize=...), scaled to the locations of the model
maxsize == 2

\* the locations that may be answered for a tweet's text; Nominatim knows
\* no place of the names "x" and "y"
GeoResponses(i) ==
    IF i = 1 THEN { <<"M">>, <<"x">> } ELSE { <<"M">>, <<"y">> }

CacheKeys == { geocode_cache[n].location : n \in DOMAIN geocode_cache }

CacheIndex(location) ==
    CHOOSE n \in DOMAIN geocode_cache : geocode_cache[n].location = location

\* a hit that leaves the entry at its place in the order of use
CacheTouch_keeps_order(location) == geocode_cache

\* a hit moves the entry to the most recently used end
CacheTouch(location) ==
    LET n == CacheIndex(location) IN
    SubSeq(geocode_cache, 1, n - 1)
        \o SubSeq(geocode_cache, n + 1, Len(geocode_cache))
        \o <<geocode_cache[n]>>

\* a result is stored unless the key has been stored meanwhile; past
\* maxsize the least recently used entry goes
CachePut(location, coords) ==
    IF location \in CacheKeys THEN geocode_cache
    ELSE LET c == Append(geocode_cache, [location |-> location, coords |-> coords])
         IN IF Len(c) > maxsize THEN Tail(c) ELSE c

\* coordinates that were found are kept in the dictionary as well
PersistentPut(location, coords) ==
    IF coords = None \/ location \in DOMAIN persistent_cache
    THEN persistent_cache
    ELSE (location :> coords) @@ persistent_cache

\* _process_tweet steps 1-2: location and topic of the tweet in hand
extract(s, topics) ==
    /\ pc[s] = "check"
    /\ IF ~running(s)
       THEN /\ status' = [status EXCEPT ![s] = "Stopped"]
            /\ pc' = [pc EXCEPT ![s] = "done"]
            /\ cur' = [cur EXCEPT ![s] = NoTweet]
            /\ UNCHANGED enriched
       ELSE /\ \E lr \in GeoResponses(cur[s].tweet_id), tr \in topics :
                 cur' = [cur EXCEPT ![s] =
                           [ tweet_id |-> @.tweet_id,
                             likes |-> @.likes,
                             retweets |-> @.retweets,
                             replies |-> @.replies,
                             timestamp |-> @.timestamp,
                             location |-> extract_location_llm(lr),
                             topic |-> tr,
                             coords |-> None ]]
            /\ pc' = [pc EXCEPT ![s] = "geocode"]
            /\ enriched' = [enriched EXCEPT ![s][cur[s].tweet_id] = @ + 1]
            /\ UNCHANGED status
    /\ UNCHANGED <<active_streams, created, seen_ids, clusters, cluster_queues,
                   subs, folded, emitted, fatal, stopResult, geo, query, pulled, ui>>

\* geocode_location_cached that waits for the rate limiter before it looks
\* into the caches
geocode_location_cached_wait_first(s) ==
    /\ pc[s] = "geocode"
    /\ holder = 0
    /\ now >= next_eligible
    /\ IF cur[s].location \in DOMAIN persistent_cache
       THEN /\ cur' = [cur EXCEPT ![s].coords = persistent_cache[cur[s].location]]
            /\ pc' = [pc EXCEPT ![s] = "fold"]
            /\ UNCHANGED <<geocode_cache, cache_uses>>
       ELSE IF cur[s].location \in CacheKeys
       THEN LET coords == geocode_cache[CacheIndex(cur[s].location)].coords IN
            /\ geocode_cache' = CacheTouch(cur[s].location)
            /\ cache_uses' = Append(cache_uses, cur[s].location)
            /\ IF coords = None
               THEN /\ cur' = [cur EXCEPT ![s] = NoTweet]
                    /\ pc' = [pc EXCEPT ![s] = "pull"]
               ELSE /\ cur' = [cur EXCEPT ![s].coords = coords]
                    /\ pc' = [pc EXCEPT ![s] = "fold"]
       ELSE /\ pc' = [pc EXCEPT ![s] = "acquire"]
            /\ UNCHANGED <<cur, geocode_cache, cache_uses>>
    /\ UNCHANGED <<active_streams, created, status, seen_ids, clusters,
                   cluster_queues, subs, enriched, folded, emitted, fatal,
                   stopResult, now, next_eligible, holder, geocode_calls,
                   persistent_cache, query, pulled, ui>>

\* geocode_location_cached that goes to the rate limiter for every location
\* that is not in the dictionary, whatever the lru_cache holds
geocode_location_cached_skip_lru(s) ==
    /\ pc[s] = "geocode"
    /\ IF cur[s].location \in DOMAIN persistent_cache
       THEN /\ cur' = [cur EXCEPT ![s].coords = persistent_cache[cur[s].location]]
            /\ pc' = [pc EXCEPT ![s] = "fold"]
       ELSE /\ pc' = [pc EXCEPT ![s] = "acquire"]
            /\ UNCHANGED cur
    /\ UNCHANGED <<active_streams, created, status, seen_ids, clusters,
                   cluster_queues, subs, enriched, folded, emitted, fatal,
                   stopResult, geocode_cache, now, next_eligible, holder,
                   geocode_calls, persistent_cache, cache_uses, query, pulled, ui>>

\* geocode_location_cached, step 3 of _process_tweet: a location found in
\* the dictionary or in the lru_cache is answered from there (None: the
\* tweet is not clustered), any other goes on to the rate limiter
geocode_location_cached(s) ==
    /\ pc[s] = "geocode"
    /\ IF cur[s].location \in DOMAIN persistent_cache
       THEN /\ cur' = [cur EXCEPT ![s].coords = persistent_cache[cur[s].location]]
            /\ pc' = [pc EXCEPT ![s] = "fold"]
            /\ UNCHANGED <<geocode_cache, cache_uses>>
       ELSE IF cur[s].location \in CacheKeys
       THEN LET coords == geocode_cache[CacheIndex(cur[s].location)].coords IN
            /\ geocode_cache' = CacheTouch(cur[s].location)
            /\ cache_uses' = Append(cache_uses, cur[s].location)
            /\ IF coords = None
               THEN /\ cur' = [cur EXCEPT ![s] = NoTweet]
                    /\ pc' = [pc EXCEPT ![s] = "pull"]
               ELSE /\ cur' = [cur EXCEPT ![s].coords = coords]
                    /\ pc' = [pc EXCEPT ![s] = "fold"]
       ELSE /\ pc' = [pc EXCEPT ![s] = "acquire"]
            /\ UNCHANGED <<cur, geocode_cache, cache_uses>>
    /\ UNCHANGED <<active_streams, created, status, seen_ids, clusters,
                   cluster_queues, subs, enriched, folded, emitted, fatal,
                   stopResult, now, next_eligible, holder, geocode_calls,
                   persistent_cache, query, pulled, ui>>

\* a rate limiter kept per stream: only the stream that sent the last
\* request has to wait
RateLimiterAcquire_per_stream(s) ==
    /\ pc[s] = "acquire"
    /\ holder = 0
    /\ \/ now >= next_eligible
       \/ /\ geocode_calls # <<>>
          /\ geocode_calls[Len(geocode_calls)].stream # s
    /\ holder' = s
    /\ pc' = [pc EXCEPT ![s] = "request"]
    /\ UNCHANGED <<active_streams, created, status, seen_ids, clusters, cur,
                   cluster_queues, subs, enriched, folded, emitted, fatal,
                   stopResult, geocode_cache, now, next_eligible, geocode_calls,
                   persistent_cache, cache_uses, query, pulled, ui>>

\* the rate limiter is acquired: nobody holds it and MinInterval has passed
\* since it was last released; until then the stream waits
RateLimiterAcquire(s) ==
    /\ pc[s] = "acquire"
    /\ holder = 0
    /\ now >= next_eligible
    /\ holder' = s
    /\ pc' = [pc EXCEPT ![s] = "request"]
    /\ UNCHANGED <<active_streams, created, status, seen_ids, clusters, cur,
                   cluster_queues, subs, enriched, folded, emitted, fatal,
                   stopResult, geocode_cache, now, next_eligible, geocode_calls,
                   persistent_cache, cache_uses, query, pulled, ui>>

\* geocode_location: the request to Nominatim.  An answer (coordinates, or
\* None when nothing matches) returns and is cached by lru_cache; a request
\* that fails gives None and caches nothing.  Coordinates are put into the
\* dictionary as well.
geocode_location(s) ==
    /\ pc[s] = "request"
    /\ \E reachable \in BOOLEAN :
         LET coords == IF reachable THEN Nominatim(cur[s].location) ELSE None
         IN /\ cur' = [cur EXCEPT ![s].coords = coords]
            /\ geocode_cache' = IF reachable
                                THEN CachePut(cur[s].location, coords)
                                ELSE geocode_cache
            /\ persistent_cache' = PersistentPut(cur[s].location, coords)
            /\ cache_uses' = IF reachable /\ cur[s].location \notin CacheKeys
                             THEN Append(cache_uses, cur[s].location)
                             ELSE cache_uses
            /\ geocode_calls' = Append(geocode_calls,
                                       [time |-> now, stream |-> s,
                                        location |-> cur[s].location,
                                        answered |-> reachable,
                                        result |-> coords])
    /\ pc' = [pc EXCEPT ![s] = "release"]
    /\ UNCHANGED <<active_streams, created, status, seen_ids, clusters,
                   cluster_queues, subs, enriched, folded, emitted, fatal,
                   stopResult, now, next_eligible, holder, query, pulled, ui>>

\* the rate limiter is released and the next acquisition is due MinInterval
\* later; a tweet without coordinates is not clustered
RateLimiterRelease(s) ==
    /\ pc[s] = "release"
    /\ holder' = 0
    /\ next_eligible' = now + MinInterval
    /\ IF cur[s].coords = None
       THEN /\ cur' = [cur EXCEPT ![s] = NoTweet]
            /\ pc' = [pc EXCEPT ![s] = "pull"]
       ELSE /\ pc' = [pc EXCEPT ![s] = "fold"]
            /\ UNCHANGED cur
    /\ UNCHANGED <<active_streams, created, status, seen_ids, clusters,
                   cluster_queues, subs, enriched, folded, emitted, fatal,
                   stopResult, geocode_cache, now, geocode_calls,
                   persistent_cache, cache_uses, query, pulled, ui>>

\* time passes
Tick ==
    /\ now < MaxTime
    /\ now' = now + 1
    /\ UNCHANGED <<active_streams, created, status, seen_ids, clusters, pc,
                   cur, cluster_queues, subs, enriched, folded, emitted, fatal,
                   stopResult, geocode_cache, next_eligible, holder,
                   geocode_calls, persistent_cache, cache_uses, query, pulled, ui>>

----------------------------------------------------------------------------
(* SSE endpoint GET /api/v1/stream/{stream_id} *)

\* stream_clusters: the generator starts and yields "connected"
stream_clusters(u, s) ==
    /\ subs[u].state = "none"
    /\ is_stream_active(s)
    /\ subs' = [subs EXCEPT ![u] = [stream |-> s, state |-> "open",
                                    events |-> <<[type |-> "connected"]>>,
                                    heartbeats |-> 0]]
    /\ UNCHANGED <<active_streams, created, status, seen_ids, clusters, pc,
                   cur, cluster_queues, enriched, folded, emitted, fatal, stopResult, geo, query, pulled, ui>>

\* the generator yielding the cluster as it stands in the stream's map at
\* the time of the yield (the queue holding the dict itself, not a copy)
cluster_event_generator_live(u) ==
    /\ subs[u].state = "open"
    /\ is_stream_active(subs[u].stream)
    /\ cluster_queues[subs[u].stream] # <<>>
    /\ LET s == subs[u].stream
           c == Head(cluster_queues[s])
       IN
         /\ subs' = [subs EXCEPT ![u].events =
                        Append(@, [type |-> "cluster_update",
                                   cluster |-> clusters[s][cluster_key(c.topic,
                                                               c.location)]])]
         /\ cluster_queues' = [cluster_queues EXCEPT ![s] = Tail(@)]
    /\ UNCHANGED <<active_streams, created, status, seen_ids, clusters, pc,
                   cur, enriched, folded, emitted, fatal, stopResult, geo, query, pulled, ui>>

\* cluster_event_generator, loop body: while the stream is active, take a
\* cluster from the queue and yield it as "cluster_update"
cluster_event_generator(u) ==
    /\ subs[u].state = "open"
    /\ is_stream_active(subs[u].stream)
    /\ cluster_queues[subs[u].stream] # <<>>
    /\ LET s == subs[u].stream IN
         /\ subs' = [subs EXCEPT ![u].events =
                        Append(@, [type |-> "cluster_update",
                                   cluster |-> Head(cluster_queues[s])])]
         /\ cluster_queues' = [cluster_queues EXCEPT ![s] = Tail(@)]
    /\ UNCHANGED <<active_streams, created, status, seen_ids, clusters, pc,
                   cur, enriched, folded, emitted, fatal, stopResult, geo, query, pulled, ui>>

\* the heartbeat sent on the connection opened first only
heartbeat_first_only(u) ==
    /\ subs[u].state = "open"
    /\ \A v \in SubIds : v < u => subs[v].state # "open"
    /\ is_stream_active(subs[u].stream)
    /\ cluster_queues[subs[u].stream] = <<>>
    /\ subs' = [subs EXCEPT ![u].heartbeats = (@ + 1) % HeartbeatWrap]
    /\ UNCHANGED <<active_streams, created, status, seen_ids, clusters, pc,
                   cur, cluster_queues, enriched, folded, emitted, fatal,
                   stopResult, geo, query, pulled, ui>>

\* cluster_event_generator, loop body when the queue gave nothing within
\* its timeout: the comment line ": heartbeat" is sent on the connection
heartbeat(u) ==
    /\ subs[u].state = "open"
    /\ is_stream_active(subs[u].stream)
    /\ cluster_queues[subs[u].stream] = <<>>
    /\ subs' = [subs EXCEPT ![u].heartbeats = (@ + 1) % HeartbeatWrap]
    /\ UNCHANGED <<active_streams, created, status, seen_ids, clusters, pc,
                   cur, cluster_queues, enriched, folded, emitted, fatal,
                   stopResult, geo, query, pulled, ui>>

\* the generator yielding a last event of type "closed" as it ends
generator_end_closed(u) ==
    /\ subs[u].state = "open"
    /\ ~is_stream_active(subs[u].stream)
    /\ subs' = [subs EXCEPT ![u].state = "ended",
                            ![u].events = Append(@, [type |-> "closed"])]
    /\ UNCHANGED <<active_streams, created, status, seen_ids, clusters, pc,
                   cur, cluster_queues, enriched, folded, emitted, fatal,
                   stopResult, geo, query, pulled, ui>>

\* cluster_event_generator, loop exit: the stream is no longer active and
\* the event sequence ends
generator_end(u) ==
    /\ subs[u].state = "open"
    /\ ~is_stream_active(subs[u].stream)
    /\ subs' = [subs EXCEPT ![u].state = "ended"]
    /\ UNCHANGED <<active_streams, created, status, seen_ids, clusters, pc,
                   cur, cluster_queues, enriched, folded, emitted, fatal, stopResult, geo, query, pulled, ui>>

\* closing the connection also throws away what the stream has queued
EventSource_close_drains(u) ==
    /\ subs[u].state = "open"
    /\ subs' = [subs EXCEPT ![u].state = "detached"]
    /\ cluster_queues' = [cluster_queues EXCEPT ![subs[u].stream] = <<>>]
    /\ UNCHANGED <<active_streams, created, status, seen_ids, clusters, pc,
                   cur, enriched, folded, emitted, fatal, stopResult, geo, query, pulled, ui>>

\* the client closes its EventSource (unmount, stop button): the generator
\* of this connection yields nothing more
EventSource_close(u) ==
    /\ subs[u].state = "open"
    /\ subs' = [subs EXCEPT ![u].state = "detached"]
    /\ UNCHANGED <<active_streams, created, status, seen_ids, clusters, pc,
                   cur, cluster_queues, enriched, folded, emitted, fatal,
                   stopResult, geo, query, pulled, ui>>

----------------------------------------------------------------------------

Next ==
    \/ \E q \in OneQuery : create_stream(q)
    \/ \E id \in StreamIds : StopStream(id)
    \/ \E s \in StreamIds : ReleaseStream(s)
    \/ \E s \in StreamIds, i \in TweetIds : scrape_nitter_search(s, i)
    \/ \E s \in StreamIds : _run_stream(s, OneTopic, OneLocation)
    \/ \E s \in StreamIds : _process_tweet(s)
    \/ \E s \in StreamIds : update_cluster(s)
    \/ \E s \in StreamIds : cluster_callback(s)
    \/ \E s \in StreamIds : TransientSourceError(s)
    \/ \E s \in StreamIds : Reconnect(s)
    \/ \E s \in StreamIds : FatalSourceError(s)
    \/ \E u \in SubIds, s \in StreamIds : stream_clusters(u, s)
    \/ \E u \in SubIds : cluster_event_generator(u)
    \/ \E u \in SubIds : generator_end(u)

Spec == Init /\ [][Next]_vars

----------------------------------------------------------------------------
(* Map client: TwitterMapSection of PipelineNode.tsx *)

\* top_tweets as it comes in a cluster: an array, or (old format) a string
\* holding the JSON text of an array, which may fail to parse
TopTweetsForms ==
    { [form |-> "array", parses |-> TRUE, text |-> "",
       items |-> <<[kind |-> "object", text |-> "h1", username |-> "u1"]>>],
      [form |-> "string", parses |-> TRUE, text |-> "",
       items |-> <<[kind |-> "string", text |-> "h1", username |-> ""],
                   [kind |-> "string", text |-> "h2", username |-> ""]>>],
      [form |-> "string", parses |-> FALSE, text |-> "raw", items |-> <<>>] }

\* the clusters the server may send: two ids, the first in two snapshots
ClusterSnapshots ==
    { [cluster_id |-> "1_0", centroid_lat |-> 19, centroid_lon |-> 72,
       tweet_count |-> 1, headline |-> "h1", popularity_score |-> 29,
       last_seen |-> 2,
       top_tweets |-> [form |-> "array", parses |-> TRUE, text |-> "",
                       items |-> <<[kind |-> "object", text |-> "h1",
                                    username |-> "u1"]>>]],
      [cluster_id |-> "1_0", centroid_lat |-> 19, centroid_lon |-> 72,
       tweet_count |-> 2, headline |-> "h1", popularity_score |-> 39,
       last_seen |-> 2,
       top_tweets |-> [form |-> "string", parses |-> TRUE, text |-> "",
                       items |-> <<[kind |-> "string", text |-> "h1",
                                    username |-> ""],
                                   [kind |-> "string", text |-> "h2",
                                    username |-> ""]>>]],
      [cluster_id |-> "1_1", centroid_lat |-> 28, centroid_lon |-> 77,
       tweet_count |-> 1, headline |-> "h3", popularity_score |-> 10,
       last_seen |-> 1,
       top_tweets |-> [form |-> "string", parses |-> FALSE, text |-> "raw",
                       items |-> <<>>]] }

NoCluster == [cluster_id |-> ""]

\* event.data of the messages an EventSource may deliver: cluster updates,
\* "connected", a cluster_update without a cluster, text that is no JSON
Messages ==
    { [parses |-> TRUE, type |-> "cluster_update", has_cluster |-> TRUE,
       cluster |-> c] : c \in ClusterSnapshots }
    \cup { [parses |-> TRUE, type |-> "connected", has_cluster |-> FALSE,
            cluster |-> NoCluster],
           [parses |-> TRUE, type |-> "cluster_update", has_cluster |-> FALSE,
            cluster |-> NoCluster],
           [parses |-> FALSE, type |-> "", has_cluster |-> FALSE,
            cluster |-> NoCluster] }

\* an item of top_tweets as a Tweet: a string becomes a tweet of "unknown"
ToTweet(item) ==
    IF item.kind = "string"
    THEN [text |-> item.text, username |-> "unknown"]
    ELSE [text |-> item.text, username |-> item.username]

\* onmessage: topTweets parsed from cluster.top_tweets (string or array)
ParseTopTweets(tt) ==
    IF tt.form = "string" /\ ~tt.parses
    THEN <<[text |-> tt.text, username |-> "unknown"]>>
    ELSE [n \in DOMAIN tt.items |-> ToTweet(tt.items[n])]

\* onmessage: the TweetCluster built from update.cluster
TweetClusterOf(cluster) ==
    [ cluster_id |-> cluster.cluster_id,
      coordinates |-> <<cluster.centroid_lon, cluster.centroid_lat>>,
      count |-> cluster.tweet_count,
      sentiment |-> "negative",
      text |-> cluster.headline,
      popularity_score |-> cluster.popularity_score,
      last_seen |-> cluster.last_seen,
      top_tweets |-> ParseTopTweets(cluster.top_tweets) ]

\* the message passes `update.type === "cluster_update" && update.cluster`
IsClusterUpdate(msg) ==
    msg.parses /\ msg.type = "cluster_update" /\ msg.has_cluster

\* eventSourceRef.current.close() where the ref is not null
CloseCurrent ==
    IF eventSourceRef # 0
    THEN [eventSources EXCEPT ![eventSourceRef].readyState = "closed"]
    ELSE eventSources

\* handleSearch starting the new search with the map as it is
handleSearch_keeps_map ==
    /\ mounted
    /\ ~isLoading
    /\ IF isStreaming /\ streamId # 0
       THEN /\ stopCalls < MaxStopCalls
            /\ stopCalls' = stopCalls + 1
            /\ stop_sent' = stop_sent \cup {streamId}
            /\ UNCHANGED <<eventSources, eventSourceRef, isLoading,
                           mapClusters, startCall, received>>
       ELSE /\ started < MaxSearches
            /\ eventSources' = CloseCurrent
            /\ eventSourceRef' = 0
            /\ isLoading' = TRUE
            /\ startCall' = "pending"
            /\ received' = <<>>
            /\ UNCHANGED <<stopCalls, stop_sent, mapClusters>>
    /\ UNCHANGED <<streamId, isStreaming, mounted, started, backend,
                   pipeline_ui, landing_ui>>

\* handleSearch (search button, or Enter in the query field) with a query
\* that is not blank: while streaming it calls handleStopStream, which
\* sends stop_stream for streamId; otherwise it closes the EventSource of
\* the ref, empties the map and sends start_stream
handleSearch ==
    /\ mounted
    /\ ~isLoading
    /\ IF isStreaming /\ streamId # 0
       THEN /\ stopCalls < MaxStopCalls
            /\ stopCalls' = stopCalls + 1
            /\ stop_sent' = stop_sent \cup {streamId}
            /\ UNCHANGED <<eventSources, eventSourceRef, isLoading,
                           mapClusters, startCall, received>>
       ELSE /\ started < MaxSearches
            /\ eventSources' = CloseCurrent
            /\ eventSourceRef' = 0
            /\ isLoading' = TRUE
            /\ mapClusters' = <<>>
            /\ startCall' = "pending"
            /\ received' = <<>>
            /\ UNCHANGED <<stopCalls, stop_sent>>
    /\ UNCHANGED <<streamId, isStreaming, mounted, started, backend,
                   pipeline_ui, landing_ui>>

\* handleSearch, start_stream answered with a stream id: the id is kept,
\* an EventSource is opened on the stream and put in the ref
start_stream_ok ==
    /\ startCall = "pending"
    /\ startCall' = "none"
    /\ started' = started + 1
    /\ streamId' = started + 1
    /\ isStreaming' = TRUE
    /\ isLoading' = FALSE
    /\ eventSources' = Append(eventSources, [stream |-> started + 1,
                                             readyState |-> "open"])
    /\ eventSourceRef' = Len(eventSources) + 1
    /\ UNCHANGED <<mapClusters, stopCalls, mounted, stop_sent, received,
                   backend,
                   pipeline_ui, landing_ui>>

\* handleSearch, start_stream refused or failed: catch
start_stream_failed ==
    /\ startCall = "pending"
    /\ startCall' = "none"
    /\ isLoading' = FALSE
    /\ isStreaming' = FALSE
    /\ UNCHANGED <<streamId, eventSources, eventSourceRef, mapClusters,
                   stopCalls, mounted, started, stop_sent, received, backend,
                   pipeline_ui, landing_ui>>

\* handleStopStream, finally (whatever the reply to stop_stream was): the
\* EventSource of the ref is closed, the ref and the state are reset
handleStopStream_finally ==
    /\ stopCalls > 0
    /\ stopCalls' = stopCalls - 1
    /\ eventSources' = CloseCurrent
    /\ eventSourceRef' = 0
    /\ isStreaming' = FALSE
    /\ streamId' = 0
    /\ UNCHANGED <<isLoading, mapClusters, startCall, mounted, started,
                   stop_sent, received, backend,
                   pipeline_ui, landing_ui>>

\* onmessage keeping the snapshot the map already has for the cluster id
onmessage_keeps_first(k, msg) ==
    /\ mounted
    /\ eventSources[k].readyState = "open"
    /\ Len(received) < MaxMessages
    /\ received' = Append(received, msg)
    /\ mapClusters' =
          IF IsClusterUpdate(msg)
               /\ msg.cluster.cluster_id \notin DOMAIN mapClusters
          THEN (msg.cluster.cluster_id :> TweetClusterOf(msg.cluster))
                   @@ mapClusters
          ELSE mapClusters
    /\ UNCHANGED <<streamId, isStreaming, isLoading, eventSources,
                   eventSourceRef, stopCalls, startCall, mounted, started,
                   stop_sent, backend,
                   pipeline_ui, landing_ui>>

\* eventSource.onmessage: JSON.parse(event.data); a cluster_update with a
\* cluster is put in the map under its cluster_id; anything else, and text
\* that does not parse (catch), changes nothing
onmessage(k, msg) ==
    /\ mounted
    /\ eventSources[k].readyState = "open"
    /\ Len(received) < MaxMessages
    /\ received' = Append(received, msg)
    /\ mapClusters' =
          IF IsClusterUpdate(msg)
          THEN (msg.cluster.cluster_id :> TweetClusterOf(msg.cluster))
                   @@ mapClusters
          ELSE mapClusters
    /\ UNCHANGED <<streamId, isStreaming, isLoading, eventSources,
                   eventSourceRef, stopCalls, startCall, mounted, started,
                   stop_sent, backend,
                   pipeline_ui, landing_ui>>

\* eventSource.onerror: setIsStreaming(false); eventSource.close()
onerror(k) ==
    /\ eventSources[k].readyState = "open"
    /\ isStreaming' = FALSE
    /\ eventSources' = [eventSources EXCEPT ![k].readyState = "closed"]
    /\ UNCHANGED <<streamId, isLoading, eventSourceRef, mapClusters,
                   stopCalls, startCall, mounted, started, stop_sent,
                   received, backend,
                   pipeline_ui, landing_ui>>

\* cleanup on unmount: the EventSource of the ref is closed
unmount ==
    /\ mounted
    /\ mounted' = FALSE
    /\ eventSources' = CloseCurrent
    /\ UNCHANGED <<streamId, isStreaming, isLoading, eventSourceRef,
                   mapClusters, stopCalls, startCall, started, stop_sent,
                   received, backend,
                   pipeline_ui, landing_ui>>

NextMap ==
    \/ handleSearch
    \/ start_stream_ok
    \/ start_stream_failed
    \/ handleStopStream_finally
    \/ \E k \in DOMAIN eventSources, msg \in Messages : onmessage(k, msg)
    \/ \E k \in DOMAIN eventSources : onerror(k)
    \/ unmount

SpecMap == Init /\ [][NextMap]_vars

----------------------------------------------------------------------------
(* Pipeline screen: PipelineScreen of part_002 *)

\* an input as the landing page hands it over: a text has its content, an
\* image or a video the file_id of its upload
Item(id, type) ==
    [id |-> id, type |-> type, content |-> "c", file |-> type # "text",
     file_id |-> IF type = "text" THEN 0 ELSE id]

\* the input lists the screen is mounted with
PipelineInputLists ==
    { <<>>,
      <<Item(1, "text")>>,
      <<Item(1, "image"), Item(2, "text")>>,
      <<Item(1, "image"), Item(2, "image")>>,
      <<Item(1, "text"), Item(2, "video"), Item(3, "image")>> }

\* inputs.filter(input => input.type === type && input.file_id / content)
InputsOfType(type) ==
    SelectSeq(pipelineInputs,
              LAMBDA input : /\ input.type = type
                             /\ IF type = "text" THEN input.content # ""
                                                 ELSE input.file_id # 0)

imageInputs == InputsOfType("image")
videoInputs == InputsOfType("video")
textInputs == InputsOfType("text")

\* the order in which analyzeInputs goes through the inputs
AnalysisOrder == imageInputs \o videoInputs \o textInputs

\* inputKey
InputKey(input) == <<input.type, input.id>>

SentFor(key) ==
    IF key \in DOMAIN analysis_requests THEN analysis_requests[key] ELSE 0

\* the mount effect: analyzeInputs() is called; its closure holds the state
\* of the render the effect belongs to
mount_effect ==
    /\ Len(runs) < MaxRuns
    /\ runs' = Append(runs, [at |-> 1, awaiting |-> FALSE,
                             results |-> analysisResults,
                             analyzing |-> analyzing])
    /\ UNCHANGED <<pipelineInputs, analysisInitiated, analysisResults,
                   analyzing, fusionInitiated, isFusing, fusionResults,
                   isComplete, fusionCall, analysis_requests, fusion_requests,
                   backend, map_ui, landing_ui>>

\* analyzeInputs whose guard looks at the state of its closure only
analyzeInputs_state_guard(r) ==
    /\ ~runs[r].awaiting
    /\ runs[r].at <= Len(AnalysisOrder)
    /\ LET input == AnalysisOrder[runs[r].at]
           inputKey == InputKey(input)
       IN IF \/ input.id \in runs[r].results[input.type]
             \/ input.id \in runs[r].analyzing[input.type]
          THEN /\ runs' = [runs EXCEPT ![r].at = @ + 1]
               /\ UNCHANGED <<analysisInitiated, analyzing,
                              analysis_requests>>
          ELSE /\ analysisInitiated' = analysisInitiated \cup {inputKey}
               /\ analyzing' = [analyzing EXCEPT ![input.type] =
                                                   @ \cup {input.id}]
               /\ analysis_requests' =
                      (inputKey :> (SentFor(inputKey) + 1))
                          @@ analysis_requests
               /\ runs' = [runs EXCEPT ![r].awaiting = TRUE]
    /\ UNCHANGED <<pipelineInputs, analysisResults, fusionInitiated, isFusing,
                   fusionResults, isComplete, fusionCall, fusion_requests,
                   backend, map_ui, landing_ui>>

\* analyzeInputs, one turn of its loops, up to the await of fetch: an input
\* with a result or under analysis in the closure's state, or whose key is
\* in analysisInitiated, is skipped; otherwise the key is added, the input
\* is marked as being analyzed and the request is sent
analyzeInputs(r) ==
    /\ ~runs[r].awaiting
    /\ runs[r].at <= Len(AnalysisOrder)
    /\ LET input == AnalysisOrder[runs[r].at]
           inputKey == InputKey(input)
       IN IF \/ input.id \in runs[r].results[input.type]
             \/ input.id \in runs[r].analyzing[input.type]
             \/ inputKey \in analysisInitiated
          THEN /\ runs' = [runs EXCEPT ![r].at = @ + 1]
               /\ UNCHANGED <<analysisInitiated, analyzing,
                              analysis_requests>>
          ELSE /\ analysisInitiated' = analysisInitiated \cup {inputKey}
               /\ analyzing' = [analyzing EXCEPT ![input.type] =
                                                   @ \cup {input.id}]
               /\ analysis_requests' =
                      (inputKey :> (SentFor(inputKey) + 1))
                          @@ analysis_requests
               /\ runs' = [runs EXCEPT ![r].awaiting = TRUE]
    /\ UNCHANGED <<pipelineInputs, analysisResults, fusionInitiated, isFusing,
                   fusionResults, isComplete, fusionCall, fusion_requests,
                   backend, map_ui, landing_ui>>

\* analyzeInputs after the await: the data of an ok response are stored
\* under input.id; an error response or a failed fetch stores nothing;
\* finally the input is taken out of the analyzing set
analysis_reply(r, ok) ==
    /\ runs[r].awaiting
    /\ LET input == AnalysisOrder[runs[r].at]
       IN /\ analysisResults' =
                IF ok THEN [analysisResults EXCEPT ![input.type] =
                                                     @ \cup {input.id}]
                      ELSE analysisResults
          /\ analyzing' = [analyzing EXCEPT ![input.type] = @ \ {input.id}]
    /\ runs' = [runs EXCEPT ![r].awaiting = FALSE, ![r].at = @ + 1]
    /\ UNCHANGED <<pipelineInputs, analysisInitiated, fusionInitiated,
                   isFusing, fusionResults, isComplete, fusionCall,
                   analysis_requests, fusion_requests,
                   backend, map_ui, landing_ui>>

\* fusion effect: every input of the type has a result and is not analyzed
CompleteFor(type) ==
    \A n \in DOMAIN InputsOfType(type) :
        /\ InputsOfType(type)[n].id \in analysisResults[type]
        /\ InputsOfType(type)[n].id \notin analyzing[type]

allComplete ==
    CompleteFor("text") /\ CompleteFor("image") /\ CompleteFor("video")

hasAnyInput ==
    Len(textInputs) > 0 \/ Len(imageInputs) > 0 \/ Len(videoInputs) > 0

\* the fusion effect finding its condition true: the two flags are set and
\* the cross-modal-fusion request is sent
fusion_effect ==
    /\ allComplete /\ hasAnyInput /\ ~fusionInitiated /\ ~isFusing
    /\ fusionInitiated' = TRUE
    /\ isFusing' = TRUE
    /\ fusionCall' = "pending"
    /\ fusion_requests' = fusion_requests + 1
    /\ UNCHANGED <<pipelineInputs, analysisInitiated, analysisResults,
                   analyzing, runs, fusionResults, isComplete,
                   analysis_requests, backend, map_ui, landing_ui>>

\* the fusion effect after the await: an ok response sets fusionResults
\* and isComplete; finally isFusing is reset
fusion_reply(ok) ==
    /\ fusionCall = "pending"
    /\ fusionCall' = "none"
    /\ fusionResults' = (ok \/ fusionResults)
    /\ isComplete' = (ok \/ isComplete)
    /\ isFusing' = FALSE
    /\ UNCHANGED <<pipelineInputs, analysisInitiated, analysisResults,
                   analyzing, runs, fusionInitiated, analysis_requests,
                   fusion_requests, backend, map_ui, landing_ui>>

NextPipeline ==
    \/ mount_effect
    \/ \E r \in DOMAIN runs : analyzeInputs(r)
    \/ \E r \in DOMAIN runs, ok \in BOOLEAN : analysis_reply(r, ok)
    \/ fusion_effect
    \/ \E ok \in BOOLEAN : fusion_reply(ok)

\* the screen mounted with one of the input lists
InitPipelineScreen ==
    /\ InitBackend
    /\ InitMap
    /\ InitLanding
    /\ \E l \in PipelineInputLists : InitPipeline(l)

SpecPipeline == InitPipelineScreen /\ [][NextPipeline]_vars

\* the browser runs every continuation that is ready, every request is
\* answered (with a result or an error), and an effect whose condition
\* holds after a render runs
SpecPipelineFair ==
    /\ SpecPipeline
    /\ \A r \in 1..MaxRuns :
          /\ WF_vars(r \in DOMAIN runs /\ analyzeInputs(r))
          /\ WF_vars(r \in DOMAIN runs
                        /\ \E ok \in BOOLEAN : analysis_reply(r, ok))
    /\ WF_vars(fusion_effect)
    /\ WF_vars(\E ok \in BOOLEAN : fusion_reply(ok))

----------------------------------------------------------------------------
(* Landing page: LandingPage.tsx *)

\* addInput (text tab): a text input with the text typed, which is not blank
addInput ==
    /\ route = "/"
    /\ ids_made < MaxInputs
    /\ ids_made' = ids_made + 1
    /\ inputs' = Append(inputs, [id |-> ids_made + 1, type |-> "text",
                                 content |-> "c", file |-> FALSE,
                                 file_id |-> 0])
    /\ UNCHANGED <<isUploading, closureInputs, uploads, analyzeCall, route,
                   navState, files_stored, backend, map_ui, pipeline_ui>>

\* handleFileUpload (image or video tab): an input with the file chosen
handleFileUpload(type) ==
    /\ route = "/"
    /\ ids_made < MaxInputs
    /\ ids_made' = ids_made + 1
    /\ inputs' = Append(inputs, [id |-> ids_made + 1, type |-> type,
                                 content |-> "f", file |-> TRUE,
                                 file_id |-> 0])
    /\ UNCHANGED <<isUploading, closureInputs, uploads, analyzeCall, route,
                   navState, files_stored, backend, map_ui, pipeline_ui>>

removeInput(id) ==
    /\ route = "/"
    /\ inputs' = SelectSeq(inputs, LAMBDA item : item.id # id)
    /\ UNCHANGED <<isUploading, closureInputs, uploads, analyzeCall, route,
                   navState, ids_made, files_stored,
                   backend, map_ui, pipeline_ui>>

\* the input is a file that has not been uploaded yet
NeedsUpload(input) ==
    input.type \in {"image", "video"} /\ input.file /\ input.file_id = 0

\* handleAnalyzeAll (the button is disabled while isUploading or with no
\* input): Promise.all over the inputs starts the upload of every file
\* that has no file_id
handleAnalyzeAll ==
    /\ route = "/"
    /\ analyzeCall = "none"
    /\ Len(inputs) > 0
    /\ ~isUploading
    /\ isUploading' = TRUE
    /\ closureInputs' = inputs
    /\ uploads' = [n \in DOMAIN inputs |->
                      IF NeedsUpload(inputs[n]) THEN "pending" ELSE "none"]
    /\ analyzeCall' = "uploading"
    /\ UNCHANGED <<inputs, route, navState, ids_made, files_stored,
                   backend, map_ui, pipeline_ui>>

\* uploadFile answered with ok: the input gets the file_id of the reply
uploadFile_ok(n) ==
    /\ analyzeCall = "uploading"
    /\ uploads[n] = "pending"
    /\ files_stored < MaxFiles
    /\ files_stored' = files_stored + 1
    /\ uploads' = [uploads EXCEPT ![n] = "done"]
    /\ closureInputs' = [closureInputs EXCEPT ![n].file_id = files_stored + 1]
    /\ UNCHANGED <<inputs, isUploading, analyzeCall, route, navState,
                   ids_made, backend, map_ui, pipeline_ui>>

\* uploadFile giving back the input as it was when the upload fails
uploadFile_failed_skipped(n) ==
    /\ analyzeCall = "uploading"
    /\ uploads[n] = "pending"
    /\ uploads' = [uploads EXCEPT ![n] = "none"]
    /\ UNCHANGED <<inputs, isUploading, closureInputs, analyzeCall, route,
                   navState, ids_made, files_stored,
                   backend, map_ui, pipeline_ui>>

\* uploadFile throws (response not ok, or fetch failed): Promise.all
\* rejects and handleAnalyzeAll's catch resets isUploading
uploadFile_failed(n) ==
    /\ analyzeCall = "uploading"
    /\ uploads[n] = "pending"
    /\ uploads' = [uploads EXCEPT ![n] = "failed"]
    /\ isUploading' = FALSE
    /\ analyzeCall' = "none"
    /\ UNCHANGED <<inputs, closureInputs, route, navState, ids_made,
                   files_stored, backend, map_ui, pipeline_ui>>

\* Promise.all resolved: setInputs(updatedInputs), and the timer is set
uploads_resolved ==
    /\ analyzeCall = "uploading"
    /\ \A n \in DOMAIN uploads : uploads[n] \in {"none", "done"}
    /\ inputs' = closureInputs
    /\ analyzeCall' = "timer"
    /\ UNCHANGED <<isUploading, closureInputs, uploads, route, navState,
                   ids_made, files_stored, backend, map_ui, pipeline_ui>>

\* the timer: navigate("/pipeline", { state: { inputs: updatedInputs } });
\* the pipeline screen is mounted with these inputs
navigate ==
    /\ analyzeCall = "timer"
    /\ analyzeCall' = "navigated"
    /\ route' = "/pipeline"
    /\ navState' = closureInputs
    /\ pipelineInputs' = closureInputs
    /\ UNCHANGED <<inputs, isUploading, closureInputs, uploads, ids_made,
                   files_stored, analysisInitiated, analysisResults,
                   analyzing, runs, fusionInitiated, isFusing, fusionResults,
                   isComplete, fusionCall, analysis_requests, fusion_requests,
                   backend, map_ui>>

NextLanding ==
    \/ addInput
    \/ \E type \in {"image", "video"} : handleFileUpload(type)
    \/ \E id \in 1..MaxInputs : removeInput(id)
    \/ handleAnalyzeAll
    \/ \E n \in DOMAIN uploads : uploadFile_ok(n)
    \/ \E n \in DOMAIN uploads : uploadFile_failed(n)
    \/ uploads_resolved
    \/ navigate

SpecLanding == Init /\ [][NextLanding]_vars

----------------------------------------------------------------------------
(* One stream, from the state right after its create_stream.              *)

InitOne ==
    /\ active_streams = {1}
    /\ created = 1
    /\ status = [s \in StreamIds |-> IF s = 1 THEN "Running" ELSE "none"]
    /\ seen_ids = [s \in StreamIds |-> {}]
    /\ clusters = [s \in StreamIds |-> <<>>]
    /\ pc = [s \in StreamIds |-> IF s = 1 THEN "pull" ELSE "none"]
    /\ cur = [s \in StreamIds |-> NoTweet]
    /\ cluster_queues = [s \in StreamIds |-> <<>>]
    /\ subs = [u \in SubIds |-> [stream |-> 0, state |-> "none",
                                 events |-> <<>>, heartbeats |-> 0]]
    /\ enriched = [s \in StreamIds |-> [i \in TieTweetIds |-> 0]]
    /\ folded = [s \in StreamIds |-> <<>>]
    /\ emitted = [s \in StreamIds |-> 0]
    /\ fatal = [s \in StreamIds |-> FALSE]
    /\ stopResult = [stream_id |-> 0, success |-> FALSE]
    /\ geocode_cache = <<>>
    /\ now = 0
    /\ next_eligible = 0
    /\ holder = 0
    /\ geocode_calls = <<>>
    /\ persistent_cache = <<>>
    /\ cache_uses = <<>>
    /\ query = [s \in StreamIds |-> IF s = 1 THEN "blast" ELSE ""]
    /\ pulled = [s \in StreamIds |-> <<>>]
    /\ InitUI

\* The Cluster Aggregator of the stream, fed every topic and location the
\* extraction may give: ingestion only, the stream is never stopped.
NextAgg ==
    \/ \E i \in TweetIds : scrape_nitter_search(1, i)
    \/ _run_stream(1, Topics, LocationResponses)
    \/ _process_tweet(1)
    \/ update_cluster(1)
    \/ cluster_callback(1)
    \/ TransientSourceError(1)
    \/ Reconnect(1)

SpecAgg == InitOne /\ [][NextAgg]_vars

\* The life of the stream: ingestion with one topic and one location, stop
\* requests (also for ids that name no stream), source errors, release,
\* and the subscribers of the stream.
NextOne ==
    \/ \E id \in StreamIds : StopStream(id)
    \/ ReleaseStream(1)
    \/ \E i \in TweetIds : scrape_nitter_search(1, i)
    \/ _run_stream(1, OneTopic, OneLocation)
    \/ _process_tweet(1)
    \/ update_cluster(1)
    \/ cluster_callback(1)
    \/ TransientSourceError(1)
    \/ Reconnect(1)
    \/ FatalSourceError(1)
    \/ \E u \in SubIds : stream_clusters(u, 1)
    \/ \E u \in SubIds : cluster_event_generator(u)
    \/ \E u \in SubIds : generator_end(u)
    \/ \E u \in SubIds : EventSource_close(u)

SpecOne == InitOne /\ [][NextOne]_vars

\* one turn of the loop of a connection's generator
generator_step(u) ==
    \/ cluster_event_generator(u)
    \/ heartbeat(u)
    \/ generator_end(u)

\* The stream and its subscribers with the heartbeats of the connections;
\* the generator of every connection gets its turns.
NextBeat ==
    \/ \E id \in StreamIds : StopStream(id)
    \/ ReleaseStream(1)
    \/ \E i \in TweetIds : scrape_nitter_search(1, i)
    \/ _run_stream(1, OneTopic, OneLocation)
    \/ _process_tweet(1)
    \/ update_cluster(1)
    \/ cluster_callback(1)
    \/ FatalSourceError(1)
    \/ \E u \in SubIds : stream_clusters(u, 1)
    \/ \E u \in SubIds : cluster_event_generator(u)
    \/ \E u \in SubIds : heartbeat(u)
    \/ \E u \in SubIds : generator_end(u)
    \/ \E u \in SubIds : EventSource_close(u)

SpecBeat ==
    /\ InitOne
    /\ [][NextBeat]_vars
    /\ \A u \in SubIds : WF_vars(generator_step(u))

\* The Cluster Aggregator of the stream on a timeline of one tweet more,
\* among them tweets of which the one with fewer likes is the more popular.
NextHead ==
    \/ \E i \in AllTweetIds : scrape_nitter_search(1, i)
    \/ _run_stream(1, OneTopic, OneLocation)
    \/ _process_tweet(1)
    \/ update_cluster(1)
    \/ cluster_callback(1)

SpecHead == InitOne /\ [][NextHead]_vars

\* The Cluster Aggregators of the streams side by side, each fed every
\* topic and location the extraction may give.
NextReplay ==
    \/ \E q \in OneQuery : create_stream(q)
    \/ \E s \in StreamIds, i \in TweetIds : scrape_nitter_search(s, i)
    \/ \E s \in StreamIds : _run_stream(s, Topics, LocationResponses)
    \/ \E s \in StreamIds : _process_tweet(s)
    \/ \E s \in StreamIds : update_cluster(s)
    \/ \E s \in StreamIds : cluster_callback(s)

SpecReplay == Init /\ [][NextReplay]_vars

\* The streams of the manager sharing the geocoding service: ingestion with
\* the cache, the rate limiter and the clock.
NextGeo ==
    \/ \E q \in OneQuery : create_stream(q)
    \/ \E s \in StreamIds, i \in TweetIds : scrape_nitter_search(s, i)
    \/ \E s \in StreamIds : extract(s, OneTopic)
    \/ \E s \in StreamIds : geocode_location_cached(s)
    \/ \E s \in StreamIds : RateLimiterAcquire(s)
    \/ \E s \in StreamIds : geocode_location(s)
    \/ \E s \in StreamIds : RateLimiterRelease(s)
    \/ \E s \in StreamIds : _process_tweet(s)
    \/ \E s \in StreamIds : update_cluster(s)
    \/ \E s \in StreamIds : cluster_callback(s)
    \/ Tick

SpecGeo == Init /\ [][NextGeo]_vars

\* The Cluster Aggregator of the stream on the timeline with the two
\* equally popular tweets.
NextTies ==
    \/ \E i \in TieTweetIds : scrape_nitter_search(1, i)
    \/ _run_stream(1, OneTopic, OneLocation)
    \/ _process_tweet(1)
    \/ update_cluster(1)
    \/ cluster_callback(1)

SpecTies == InitOne /\ [][NextTies]_vars

\* The Cluster Aggregator fed with enriched records whose coordinates
\* differ within a key, in any order.
NextMean ==
    \/ \E i \in TieTweetIds, c \in MeanCoords :
          EnrichedRecord(1, i, <<"a">>, <<"m">>, c)
    \/ _process_tweet(1)
    \/ update_cluster(1)
    \/ cluster_callback(1)

SpecMean == InitOne /\ [][NextMean]_vars

\* The stream with all its clusters, from its start to its release: every
\* topic and location the extraction may give, on the longer timeline, with
\* stop requests and source errors.
NextLife ==
    \/ \E id \in StreamIds : StopStream(id)
    \/ ReleaseStream(1)
    \/ \E i \in AllTweetIds : scrape_nitter_search(1, i)
    \/ _run_stream(1, Topics, LocationResponses)
    \/ _process_tweet(1)
    \/ update_cluster(1)
    \/ cluster_callback(1)
    \/ FatalSourceError(1)

SpecLife == InitOne /\ [][NextLife]_vars

\* The life of the stream with its thread running on: a tweet in hand is
\* checked, enriched (a call that hangs times out and gives None), folded and
\* published, and a Stopped stream is released.  Whether the timeline shows
\* a tweet not seen before is up to the timeline.
SpecStop ==
    /\ InitOne
    /\ [][NextLife]_vars
    /\ WF_vars(_run_stream(1, Topics, LocationResponses))
    /\ WF_vars(_process_tweet(1))
    /\ WF_vars(update_cluster(1))
    /\ WF_vars(cluster_callback(1))
    /\ WF_vars(ReleaseStream(1))

\* The registry: searches started with any query, also one that is running
\* already, while the streams started before ingest, are stopped, fail and
\* are released.
NextReg ==
    \/ \E q \in Queries : create_stream(q)
    \/ \E id \in StreamIds : StopStream(id)
    \/ \E s \in StreamIds : ReleaseStream(s)
    \/ \E s \in StreamIds, i \in TweetIds : scrape_nitter_search(s, i)
    \/ \E s \in StreamIds : _run_stream(s, OneTopic, OneLocation)
    \/ \E s \in StreamIds : _process_tweet(s)
    \/ \E s \in StreamIds : update_cluster(s)
    \/ \E s \in StreamIds : cluster_callback(s)
    \/ \E s \in StreamIds : FatalSourceError(s)

SpecReg == Init /\ [][NextReg]_vars

\* Two streams of the same query side by side, with one subscriber: each
\* ingests, is stopped, fails and is released while the other goes on.
NextIso ==
    \/ \E q \in OneQuery : create_stream(q)
    \/ \E id \in StreamIds : StopStream(id)
    \/ \E s \in StreamIds : ReleaseStream(s)
    \/ \E s \in StreamIds, i \in TweetIds : scrape_nitter_search(s, i)
    \/ \E s \in StreamIds : _run_stream(s, OneTopic, OneLocation)
    \/ \E s \in StreamIds : _process_tweet(s)
    \/ \E s \in StreamIds : update_cluster(s)
    \/ \E s \in StreamIds : cluster_callback(s)
    \/ \E s \in StreamIds : FatalSourceError(s)
    \/ \E s \in StreamIds : stream_clusters(1, s)
    \/ cluster_event_generator(1)
    \/ generator_end(1)

SpecIso == Init /\ [][NextIso]_vars

----------------------------------------------------------------------------
(* Properties *)

FoldedIds(s) == { folded[s][n].tweet_id : n \in DOMAIN folded[s] }

\* C1: in every stream each tweet id is enriched at most once and folded
\* into a cluster at most once, whatever the timeline shows (replays of an
\* id, any order) and across reconnects of the source.
C1_FoldedAtMostOnce ==
    \A s \in StreamIds :
        /\ \A n, m \in DOMAIN folded[s] :
               folded[s][n].tweet_id = folded[s][m].tweet_id => n = m
        /\ \A i \in TweetIds : enriched[s][i] <= 1

\* C1 witness: both tweets folded, the later-stamped one last, every id
\* seen (so every item shown from now on is a replay), source reconnecting
C1_Witness ==
    /\ Len(folded[1]) >= 2
    /\ folded[1][1].tweet_id = 2
    /\ folded[1][2].tweet_id = 1
    /\ seen_ids[1] = TweetIds
    /\ pc[1] = "backoff"

\* likes + 2 * retweets + 0.5 * replies of the tweet with id i, in halves
ScoreInHalves(i) ==
    2 * TweetOf(i).likes + 4 * TweetOf(i).retweets + TweetOf(i).replies

RECURSIVE SumScores(_)
SumScores(ids) ==
    IF ids = {} THEN 0
    ELSE LET i == CHOOSE x \in ids : TRUE
         IN ScoreInHalves(i) + SumScores(ids \ {i})

FoldedUnder(s, key) ==
    { folded[s][n].tweet_id : n \in { m \in DOMAIN folded[s] : folded[s][m].key = key } }

\* C2: in every reachable state, for every cluster, tweet_count is the
\* number of distinct tweet ids folded under the cluster's key and
\* popularity_score is the exact sum of likes + 2*retweets + 0.5*replies
\* over the tweets folded under that key.
C2_CountAndPopularity ==
    \A s \in StreamIds : \A key \in DOMAIN clusters[s] :
        /\ clusters[s][key].tweet_count = Cardinality(FoldedUnder(s, key))
        /\ clusters[s][key].popularity_score = SumScores(FoldedUnder(s, key))

\* C2 witness: the tweets 10/2/1 and 5/0/0 in one cluster: count 2,
\* popularity 19.5, headline the first of them
C2_Witness ==
    \E key \in DOMAIN clusters[1] :
        /\ clusters[1][key].tweet_count = 2
        /\ clusters[1][key].popularity_score = 39
        /\ clusters[1][key].headline = 1
        /\ pc[1] = "pull"

\* the cluster a folded tweet is a member of
MembersOf(s, key) ==
    { clusters[s][key].top_tweets[n] : n \in DOMAIN clusters[s][key].top_tweets }

\* the key with normalize = lower-case and trim
TrimmedKey(tw) ==
    Lower(Strip(tw.topic)) \o <<"_">> \o Lower(Strip(tw.location))

\* the key with normalize = lower-case only
LoweredKey(tw) == Lower(tw.topic) \o <<"_">> \o Lower(tw.location)

\* C3 as stated: two folded tweets are in the same cluster iff their keys
\* normalize(topic) + "_" + normalize(location) are equal, normalize
\* lower-casing and trimming.
C3_TrimmedKeyDecides ==
    \A s \in StreamIds : \A k1, k2 \in DOMAIN clusters[s] :
        \A t1 \in MembersOf(s, k1), t2 \in MembersOf(s, k2) :
            (k1 = k2) <=> (TrimmedKey(t1) = TrimmedKey(t2))

\* C3 amended: two folded tweets are in the same cluster iff their keys
\* lower(topic) + "_" + lower(location) are equal (letter case is ignored,
\* surrounding whitespace is not), and tweets with the same location whose
\* lower-cased topics differ are never in the same cluster.
C3_LoweredKeyDecides ==
    \A s \in StreamIds : \A k1, k2 \in DOMAIN clusters[s] :
        \A t1 \in MembersOf(s, k1), t2 \in MembersOf(s, k2) :
            /\ (k1 = k2) <=> (LoweredKey(t1) = LoweredKey(t2))
            /\ (t1.location = t2.location /\ Lower(t1.topic) # Lower(t2.topic))
                   => k1 # k2

\* C3 witness: one cluster holds two tweets whose topics differ in case
C3_Witness ==
    \E key \in DOMAIN clusters[1] :
        \E t1, t2 \in MembersOf(1, key) :
            /\ t1.topic = <<"a">>
            /\ t2.topic = <<"A">>

----------------------------------------------------------------------------
(* Stream lifecycle *)

LifecycleSteps ==
    { <<"none", "Running">>, <<"Running", "Stopping">>,
      <<"Stopping", "Stopped">>, <<"Running", "Stopped">> }

\* C4: a stream's status moves only along Running -> Stopping -> Stopped
\* or Running -> Stopped (so each step is taken at most once and Stopped is
\* final, however often StopStream is called), a stream is in the registry
\* whenever it is Running or Stopping, and it leaves the registry only when
\* Stopped.
C4_Lifecycle ==
    /\ [](\A s \in StreamIds :
            status[s] \in {"Running", "Stopping"} => s \in active_streams)
    /\ [][\A s \in StreamIds :
            /\ status'[s] # status[s] => <<status[s], status'[s]>> \in LifecycleSteps
            /\ (s \in active_streams /\ s \notin active_streams')
                   => status[s] = "Stopped"]_vars

\* C4 witness: a stream stopped on request and released, on which a further
\* StopStream call has failed
C4_Witness ==
    \E s \in StreamIds :
        /\ status[s] = "Stopped"
        /\ ~fatal[s]
        /\ s \notin active_streams
        /\ stopResult = [stream_id |-> s, success |-> FALSE]

\* C5: StopStream(id) returns false and changes nothing when id is not in
\* the registry or names a Stopped stream; it returns true only for a
\* stream that was Running when the call took effect.
C5_StopResult ==
    [][\A id \in StreamIds :
         StopStream(id) =>
           /\ (id \notin active_streams \/ status[id] = "Stopped")
                 => /\ stopResult'.success = FALSE
                    /\ UNCHANGED <<active_streams, created, status, seen_ids,
                                   clusters, pc, cur, cluster_queues, subs,
                                   enriched, folded, emitted, fatal, geo, query, pulled, ui>>
           /\ stopResult'.success = TRUE
                 => (id \in active_streams /\ status[id] = "Running")]_vars

\* C5 witness: StopStream has returned false for a stream that is Stopped
\* and still registered
C5_Witness ==
    \E s \in StreamIds :
        /\ s \in active_streams
        /\ status[s] = "Stopped"
        /\ stopResult = [stream_id |-> s, success |-> FALSE]

----------------------------------------------------------------------------
(* Subscribers *)

EventTypes(u) == { subs[u].events[n].type : n \in DOMAIN subs[u].events }

ClosedEvents(u) ==
    { n \in DOMAIN subs[u].events : subs[u].events[n].type = "closed" }

\* C6 as stated: a subscriber whose event sequence has ended with the stop
\* of its stream has received exactly one "closed" event, as its last event.
C6_ExactlyOneClosed ==
    \A u \in SubIds :
        subs[u].state = "ended" =>
            /\ Cardinality(ClosedEvents(u)) = 1
            /\ subs[u].events[Len(subs[u].events)].type = "closed"

\* C6 amended: when a stream is stopped and no longer active, the event
\* sequence of every subscriber attached to it ends and nothing is delivered
\* after the end; the sequence consists of "connected" and "cluster_update"
\* events only, no subscriber ever receives a "closed" event.
C6_EndsWithoutClosed ==
    /\ [](\A u \in SubIds :
            /\ EventTypes(u) \subseteq {"connected", "cluster_update"}
            /\ subs[u].state = "ended" => ~is_stream_active(subs[u].stream))
    /\ [][\A u \in SubIds :
            subs[u].state = "ended" => subs'[u] = subs[u]]_vars

\* C6 witness: a stream stopped on request, every subscriber attached to it,
\* all event sequences ended, cluster updates delivered
C6_Witness ==
    \E s \in StreamIds :
        /\ status[s] = "Stopped"
        /\ ~fatal[s]
        /\ \A u \in SubIds : subs[u].stream = s /\ subs[u].state = "ended"
        /\ \E u \in SubIds : "cluster_update" \in EventTypes(u)

----------------------------------------------------------------------------
(* Stop during ingestion *)

MaxOf(S) == CHOOSE x \in S : \A y \in S : y <= x

\* every cluster of stream s reflects, in all its fields, exactly the tweets
\* folded under its key, and every fold has been emitted
WhollyFolded(s) ==
    /\ emitted[s] = Len(folded[s])
    /\ \A key \in DOMAIN clusters[s] :
         LET c == clusters[s][key]
             ids == FoldedUnder(s, key)
         IN /\ c.tweet_count = Cardinality(ids)
            /\ c.popularity_score = SumScores(ids)
            /\ Len(c.top_tweets) = Cardinality(ids)
            /\ { c.top_tweets[n].tweet_id : n \in DOMAIN c.top_tweets } = ids
            /\ c.headline \in ids
            /\ \A i \in ids : TweetOf(i).likes <= TweetOf(c.headline).likes
            /\ c.last_seen = MaxOf({ TweetOf(i).timestamp : i \in ids })
            /\ \A n \in DOMAIN c.top_tweets :
                 /\ c.top_tweets[n].coords[1] + offset_lat(key) = c.centroid_lat
                 /\ c.top_tweets[n].coords[2] + offset_lon(key) = c.centroid_lon

\* C7: a stop request arriving at any point of the ingestion leaves no
\* cluster partially mutated: an update that has begun is carried through
\* to its event whatever the status, and whenever the thread is not inside
\* an update every cluster reflects each folded tweet in all its fields
\* (count, popularity, centroid, members, headline, last_seen) with one
\* event emitted per fold, and no other tweet in any field.
C7_NoPartialFold ==
    /\ [](\A s \in active_streams :
            pc[s] \notin {"members", "emit"} => WhollyFolded(s))
    /\ [][\A s \in StreamIds :
            /\ (pc[s] = "members" /\ pc'[s] # "members") => pc'[s] = "emit"
            /\ (pc[s] = "emit" /\ pc'[s] # "emit")
                   => (pc'[s] = "pull" /\ emitted'[s] = emitted[s] + 1)]_vars

\* C7 witness: the stop request has arrived while a tweet was being folded
\* into an existing cluster, and the members update has been applied
C7_Witness ==
    \E s \in StreamIds :
        /\ status[s] = "Stopping"
        /\ pc[s] = "emit"
        /\ \E key \in DOMAIN clusters[s] :
             /\ clusters[s][key].tweet_count = 2
             /\ Len(clusters[s][key].top_tweets) = 2

----------------------------------------------------------------------------
(* Source errors *)

C10_ReconnectKeepsSeenIds ==
    /\ [](\A s \in StreamIds : FoldedIds(s) \subseteq seen_ids[s])
    /\ [][\A s \in StreamIds :
            /\ (\/ (pc[s] = "pull" /\ pc'[s] = "backoff")
                \/ (pc[s] = "backoff" /\ pc'[s] = "pull"))
                  => /\ status'[s] = status[s]
                     /\ seen_ids'[s] = seen_ids[s]
                     /\ clusters'[s] = clusters[s]
            /\ seen_ids[s] \subseteq seen_ids'[s]
            /\ (pc[s] = "pull" /\ pc'[s] = "check")
                  => cur'[s].tweet_id \notin seen_ids[s]]_vars

\* C10 witness: a Running stream with a folded tweet whose source has just
\* failed transiently
C10_Witness ==
    \E s \in StreamIds :
        /\ status[s] = "Running"
        /\ pc[s] = "backoff"
        /\ Len(folded[s]) >= 1
        /\ seen_ids[s] # {}

----------------------------------------------------------------------------
(* Enrichment failure *)

\* the tweets of stream s that were enriched and got no coordinates
Dropped(s) ==
    { i \in AllTweetIds : /\ enriched[s][i] >= 1
                          /\ i \notin FoldedIds(s)
                          /\ cur[s].tweet_id # i }

----------------------------------------------------------------------------
(* Rate limiter *)

\* C12: across all streams, any two consecutive requests to Nominatim are
\* at least MinInterval apart, so that N requests take at least
\* (N - 1) * MinInterval, whichever streams send them and however their
\* steps interleave.
C12_GeocodeCallsSpaced ==
    /\ \A n \in 1..(Len(geocode_calls) - 1) :
           geocode_calls[n + 1].time - geocode_calls[n].time >= MinInterval
    /\ geocode_calls # <<>> =>
           geocode_calls[Len(geocode_calls)].time - geocode_calls[1].time
               >= (Len(geocode_calls) - 1) * MinInterval

\* C12 witness: three requests, sent by both streams, the second exactly
\* MinInterval after the first
C12_Witness ==
    /\ Len(geocode_calls) = 3
    /\ geocode_calls[1].stream # geocode_calls[2].stream
    /\ geocode_calls[2].time = geocode_calls[1].time + MinInterval
    /\ geocode_calls[3].time >= geocode_calls[1].time + 2 * MinInterval

\* stream s waits for the rate limiter
Blocked(s) ==
    /\ pc[s] = "acquire"
    /\ (holder # 0 \/ now < next_eligible)

\* C13: while a stream waits for the rate limiter, every other stream can
\* take its next step of pulling and deduplicating, of location and topic
\* inference, of geocoding from the cache, of folding and of emitting; only
\* the requests to Nominatim wait for one another.
C13_OthersNotBlocked ==
    \A s, t \in StreamIds :
        (Blocked(s) /\ t # s) =>
            /\ pc[t] = "pull" =>
                   \A i \in TweetIds : ENABLED scrape_nitter_search(t, i)
            /\ pc[t] = "check" => ENABLED extract(t, OneTopic)
            /\ pc[t] = "geocode" => ENABLED geocode_location_cached(t)
            /\ pc[t] = "fold" => ENABLED _process_tweet(t)
            /\ pc[t] = "members" => ENABLED update_cluster(t)
            /\ pc[t] = "emit" => ENABLED cluster_callback(t)

\* C13 witness: stream 1 waits for the rate limiter before the interval
\* since its own request has passed, all requests so far being its own;
\* stream 2 has meanwhile geocoded a tweet from the cache, folded it and
\* emitted the cluster, and holds the next tweet
C13_Witness ==
    /\ Blocked(1)
    /\ holder = 0
    /\ \A n \in DOMAIN geocode_calls :
           geocode_calls[n].stream = 1 /\ geocode_calls[n].time = now
    /\ geocode_calls # <<>>
    /\ emitted[2] = 1
    /\ pc[2] = "geocode"

----------------------------------------------------------------------------
(* The queue between a stream and its subscribers *)

\* the number of cluster updates delivered to the subscribers of stream s
RECURSIVE Delivered(_, _)
Delivered(s, U) ==
    IF U = {} THEN 0
    ELSE LET u == CHOOSE x \in U : TRUE
         IN (IF subs[u].stream = s THEN Len(subs[u].events) - 1 ELSE 0)
                + Delivered(s, U \ {u})

\* C14: publishing a cluster never holds up the ingestion: a stream that
\* has a cluster to publish can always publish it, whatever its subscribers
\* have read (nothing, or they are gone), and no step of a subscriber
\* changes anything the ingestion loop works on.
C14_PublishNeverBlocks ==
    /\ [](\A s \in StreamIds : pc[s] = "emit" => ENABLED cluster_callback(s))
    /\ [][subs' # subs =>
            UNCHANGED <<status, seen_ids, clusters, pc, cur, enriched, folded,
                        emitted>>]_vars

\* C14 witness: one subscriber is attached and has read nothing, the other
\* has closed its connection; the stream has folded and published both
\* tweets all the same
C14_Witness ==
    /\ subs[1].state = "open"
    /\ subs[1].events = <<[type |-> "connected"]>>
    /\ subs[2].state = "detached"
    /\ Len(folded[1]) = 2
    /\ emitted[1] = 2
    /\ Len(cluster_queues[1]) = 2

\* the capacity of a subscriber's queue ("e.g. 64"), on the scale of the
\* tweets of the model
QueueCapacity == 1

\* C15 as stated: the queue a subscriber reads from never holds more events
\* than its capacity.
C15_QueueWithinCapacity ==
    \A s \in StreamIds : Len(cluster_queues[s]) <= QueueCapacity

\* C15 amended: a stream has one queue, read by all its subscribers, and
\* the queue has no capacity: an arriving event is always put at its tail,
\* and an event leaves the queue only from its head, by being delivered to
\* a subscriber; every event published is in the queue or delivered.
C15_QueueKeepsEverything ==
    /\ [](\A s \in StreamIds :
            Len(cluster_queues[s]) + Delivered(s, SubIds) = emitted[s])
    /\ [][\A s \in StreamIds :
            cluster_queues'[s] # cluster_queues[s] =>
                \/ /\ Len(cluster_queues'[s]) = Len(cluster_queues[s]) + 1
                   /\ SubSeq(cluster_queues'[s], 1, Len(cluster_queues[s]))
                          = cluster_queues[s]
                   /\ emitted'[s] = emitted[s] + 1
                \/ /\ cluster_queues[s] # <<>>
                   /\ cluster_queues'[s] = Tail(cluster_queues[s])
                   /\ \E u \in SubIds :
                         /\ subs[u].stream = s
                         /\ subs'[u].events =
                                Append(subs[u].events,
                                       [type |-> "cluster_update",
                                        cluster |-> Head(cluster_queues[s])])]_vars

\* C15 witness: nothing was read and the queue holds more than
\* QueueCapacity events, oldest first
C15_Witness ==
    /\ subs[1].state = "open"
    /\ Delivered(1, SubIds) = 0
    /\ Len(cluster_queues[1]) > QueueCapacity
    /\ cluster_queues[1][1].tweet_count = 1
    /\ cluster_queues[1][2].tweet_count = 2

\* C16 as stated: the queue of a subscriber that does not read holds, for
\* each cluster, the most recent snapshot and never an older one.
C16_NoSupersededSnapshot ==
    \A s \in StreamIds : \A n, m \in DOMAIN cluster_queues[s] :
        n < m => cluster_queues[s][n].cluster_id # cluster_queues[s][m].cluster_id

\* C16 amended: the queue holds every snapshot published and not yet read,
\* in the order of publication: the snapshots of one cluster are queued with
\* growing tweet count, older ones before newer ones, and whenever no fold
\* is in progress the last snapshot published for a cluster is the state of
\* the cluster; nothing is coalesced.
C16_SnapshotsInOrder ==
    \A s \in active_streams :
        /\ \A n, m \in DOMAIN cluster_queues[s] :
             (n < m /\ cluster_queues[s][n].cluster_id
                          = cluster_queues[s][m].cluster_id)
                 => cluster_queues[s][n].tweet_count
                        < cluster_queues[s][m].tweet_count
        /\ (pc[s] \notin {"members", "emit"} /\ Delivered(s, SubIds) = 0) =>
             \A key \in DOMAIN clusters[s] :
                 LET Q == { n \in DOMAIN cluster_queues[s] :
                              cluster_queues[s][n].cluster_id
                                  = clusters[s][key].cluster_id }
                 IN /\ Cardinality(Q) = clusters[s][key].tweet_count
                    /\ cluster_queues[s][MaxOf(Q)] = clusters[s][key]

\* C16 witness: a subscriber that has read nothing; the queue holds the
\* first snapshot of a cluster and, after it, the snapshot that supersedes it
C16_Witness ==
    /\ subs[1].state = "open"
    /\ subs[1].events = <<[type |-> "connected"]>>
    /\ pc[1] = "pull"
    /\ Len(cluster_queues[1]) = 2
    /\ cluster_queues[1][1].cluster_id = cluster_queues[1][2].cluster_id
    /\ cluster_queues[1][1].top_tweets # cluster_queues[1][2].top_tweets

\* C17 as stated: a subscriber's detachment releases its queue: once every
\* subscriber of a stream has detached, nothing is queued for them.
C17_QueueReleasedOnDetach ==
    \A u \in SubIds :
        (/\ subs[u].state = "detached"
         /\ \A v \in SubIds : subs[v].stream = subs[u].stream
                                  => subs[v].state = "detached")
            => cluster_queues[subs[u].stream] = <<>>

\* C17 amended: detaching a subscriber ends the event sequence of that
\* subscriber only; it removes no queue (the queue of the stream stays as
\* it is and goes on receiving events) and leaves unchanged the other
\* subscribers and their delivered events, the stream's status, seen_ids and
\* clusters; nothing is delivered to a subscriber after it has detached.
C17_DetachFrame ==
    [][\A u \in SubIds :
         /\ (subs[u].state = "open" /\ subs'[u].state = "detached")
               => /\ \A v \in SubIds \ {u} : subs'[v] = subs[v]
                  /\ subs'[u].events = subs[u].events
                  /\ UNCHANGED <<active_streams, status, seen_ids, clusters,
                                 cluster_queues, pc, cur, folded, emitted>>
         /\ subs[u].state = "detached" => subs'[u] = subs[u]]_vars

\* C17 witness: subscriber 1 has detached having read nothing; afterwards
\* the stream has published and the other subscriber has been delivered a
\* cluster update, another one being queued
C17_Witness ==
    /\ subs[1].state = "detached"
    /\ subs[1].events = <<[type |-> "connected"]>>
    /\ subs[2].state = "open"
    /\ Len(subs[2].events) = 2
    /\ Len(cluster_queues[1]) = 1
    /\ status[1] = "Running"

----------------------------------------------------------------------------
(* Centroid and offset *)

RECURSIVE SumCoord(_, _)
SumCoord(tweets, k) ==
    IF tweets = <<>> THEN 0
    ELSE Head(tweets).coords[k] + SumCoord(Tail(tweets), k)

\* C18: the centroid of a cluster is the mean of its members' coordinates
\* plus an offset that is a function of the cluster key alone: whatever the
\* order in which tweets arrive under the key the offset is the same, and
\* no update of the cluster changes it.
C18_CentroidIsMeanPlusOffset ==
    /\ [](\A s \in StreamIds : \A key \in DOMAIN clusters[s] :
            LET c == clusters[s][key]
                n == Len(c.top_tweets)
            IN /\ c.centroid_lat * n
                     = SumCoord(c.top_tweets, 1) + n * offset_lat(key)
               /\ c.centroid_lon * n
                     = SumCoord(c.top_tweets, 2) + n * offset_lon(key))
    /\ [][\A s \in StreamIds :
            \A key \in DOMAIN clusters[s] \cap DOMAIN clusters'[s] :
              LET c == clusters[s][key]
                  d == clusters'[s][key]
              IN /\ (d.centroid_lat - c.centroid_lat) * Len(c.top_tweets)
                         * Len(d.top_tweets)
                       = SumCoord(d.top_tweets, 1) * Len(c.top_tweets)
                           - SumCoord(c.top_tweets, 1) * Len(d.top_tweets)
                 /\ (d.centroid_lon - c.centroid_lon) * Len(c.top_tweets)
                         * Len(d.top_tweets)
                       = SumCoord(d.top_tweets, 2) * Len(c.top_tweets)
                           - SumCoord(c.top_tweets, 2) * Len(d.top_tweets)]_vars

\* C18 witness: the cluster of key "a_m" holds both tweets, folded 2 before
\* 1, and lies 259/50000 degree south and 459/50000 degree east of the
\* place Nominatim gave for "m"
C18_Witness ==
    /\ Len(folded[1]) = 2
    /\ folded[1][1].tweet_id = 2
    /\ \E key \in DOMAIN clusters[1] :
         /\ key = <<"a", "_", "m">>
         /\ Len(clusters[1][key].top_tweets) = 2
         /\ clusters[1][key].centroid_lat = 950000 - 259
         /\ clusters[1][key].centroid_lon = 3600000 + 459

----------------------------------------------------------------------------
(* Headline *)

\* C20 as stated: the headline of a cluster is the tweet with the highest
\* popularity among all tweets folded into the cluster (of equally popular
\* ones the one with the earliest timestamp), and it is top_tweets[0].
C20_HeadlineIsMostPopular ==
    \A s \in StreamIds : \A key \in DOMAIN clusters[s] :
        pc[s] # "members" =>
            LET c == clusters[s][key]
                ids == FoldedUnder(s, key)
            IN /\ c.headline = c.top_tweets[1].tweet_id
               /\ c.headline \in ids
               /\ \A i \in ids :
                    \/ ScoreInHalves(i) < ScoreInHalves(c.headline)
                    \/ /\ ScoreInHalves(i) = ScoreInHalves(c.headline)
                       /\ TweetOf(c.headline).timestamp <= TweetOf(i).timestamp

\* C20 amended: the headline of a cluster is the tweet with the most likes
\* among all tweets folded into the cluster; top_tweets[0] is the tweet
\* with the highest popularity, and the headline need not be that tweet.
C20_HeadlineIsMostLiked ==
    \A s \in StreamIds : \A key \in DOMAIN clusters[s] :
        pc[s] # "members" =>
            LET c == clusters[s][key]
                ids == FoldedUnder(s, key)
            IN /\ c.headline \in ids
               /\ \A i \in ids : TweetOf(i).likes <= TweetOf(c.headline).likes
               /\ c.top_tweets[1].tweet_id \in ids
               /\ \A i \in ids :
                    ScoreInHalves(i) <= ScoreInHalves(c.top_tweets[1].tweet_id)

\* C20 witness: a cluster of the tweets 2 (5 likes, popularity 5) and 3
\* (no like, popularity 6.5): the headline is tweet 2, top_tweets[0] is
\* tweet 3
C20_Witness ==
    \E key \in DOMAIN clusters[1] :
        /\ pc[1] = "pull"
        /\ FoldedUnder(1, key) = {2, 3}
        /\ clusters[1][key].headline = 2
        /\ clusters[1][key].top_tweets[1].tweet_id = 3

----------------------------------------------------------------------------
(* Determinism of the Cluster Aggregator *)

\* a cluster dict without the stream's part of its cluster_id
Snapshot(c) == [c EXCEPT !.cluster_id = c.cluster_id[2]]

\* the clusters of stream s, and the snapshots it has published
Snapshots(s) == [key \in DOMAIN clusters[s] |-> Snapshot(clusters[s][key])]
Published(s) ==
    [n \in DOMAIN cluster_queues[s] |-> Snapshot(cluster_queues[s][n])]

----------------------------------------------------------------------------
(* Registry *)

\* the streams created so far
Created == { s \in StreamIds : status[s] # "none" }

\* all that belongs to stream s
StreamState(s) ==
    <<s \in active_streams, status[s], query[s], seen_ids[s], clusters[s],
      pc[s], cur[s], cluster_queues[s], folded[s], emitted[s], fatal[s]>>

\* C21: every call of create_stream, also one with the query of a stream
\* that is running, makes a new stream: the call is never refused or
\* answered with an existing stream, the stream made is Running and
\* registered under an id that no stream was ever given before, and the
\* streams that exist are left as they are.
C21_EveryStartCreates ==
    /\ [](created < MaxStreams =>
             \A q \in Queries : ENABLED (create_stream(q) /\ Created' # Created))
    /\ [][Created' # Created =>
            \E s \in StreamIds \ Created :
                /\ Created' = Created \cup {s}
                /\ s \notin active_streams
                /\ s \in active_streams'
                /\ status'[s] = "Running"
                /\ seen_ids'[s] = {}
                /\ clusters'[s] = <<>>
                /\ cluster_queues'[s] = <<>>
                /\ \A t \in StreamIds \ {s} : StreamState(t)' = StreamState(t)
                /\ subs' = subs]_vars

\* C21 witness: a second search was started with the query of the first
\* while the first stream, still Running, held a cluster and a tweet in
\* hand; both are registered, under different ids
C21_Witness ==
    /\ created = 2
    /\ query[1] = query[2]
    /\ status[1] = "Running"
    /\ status[2] = "Running"
    /\ active_streams = {1, 2}
    /\ clusters[1] # <<>>
    /\ pc[1] = "check"
    /\ seen_ids[2] = {}

----------------------------------------------------------------------------
(* Geocode cache *)

\* the location has an entry in the dictionary or in the lru_cache
Cached(location) ==
    location \in DOMAIN persistent_cache \/ location \in CacheKeys

\* what the caches hold for a location that has an entry
CachedResult(location) ==
    IF location \in DOMAIN persistent_cache THEN persistent_cache[location]
    ELSE geocode_cache[CacheIndex(location)].coords

\* C22: a location that has an entry in the cache, coordinates or the None
\* kept for a name Nominatim does not know, is answered from the entry to
\* whichever stream looks it up: the answer is the result of the request
\* that made the entry, no request is sent to Nominatim and the rate
\* limiter is not acquired.
C22_CachedLookupNoCall ==
    /\ [](\A s \in StreamIds :
            (pc[s] = "geocode" /\ Cached(cur[s].location)) =>
                \E n \in DOMAIN geocode_calls :
                    /\ geocode_calls[n].location = cur[s].location
                    /\ geocode_calls[n].answered
                    /\ geocode_calls[n].result = CachedResult(cur[s].location))
    /\ [][\A s \in StreamIds :
            (pc[s] = "geocode" /\ pc'[s] # "geocode"
                 /\ Cached(cur[s].location)) =>
                /\ geocode_calls' = geocode_calls
                /\ holder' = holder
                /\ next_eligible' = next_eligible
                /\ pc'[s] \notin {"acquire", "request"}
                /\ IF CachedResult(cur[s].location) = None
                   THEN pc'[s] = "pull" /\ folded'[s] = folded[s]
                   ELSE /\ pc'[s] = "fold"
                        /\ cur'[s].coords = CachedResult(cur[s].location)]_vars

\* C22 witness: stream 1 has sent the only two requests, for "x" (no
\* place of that name) and for "m"; stream 2 has since looked up both
\* names, dropped the tweet from "x" and folded the tweet from "m"
C22_Witness ==
    /\ Len(geocode_calls) = 2
    /\ \A n \in DOMAIN geocode_calls : geocode_calls[n].stream = 1
    /\ { geocode_calls[n].location : n \in DOMAIN geocode_calls }
           = { <<"x">>, <<"m">> }
    /\ enriched[2][1] = 1
    /\ enriched[2][2] = 1
    /\ FoldedIds(2) = {2}
    /\ pc[2] = "pull"

\* when the key was last stored in or found in the lru_cache
LastUse(location) ==
    MaxOf({ n \in DOMAIN cache_uses : cache_uses[n] = location })

\* C23: the lru_cache never holds more than maxsize entries, nor two for
\* one key; an entry leaves it only when a new key is stored into the full
\* cache, and the entry that leaves is the one whose last use, being stored
\* or being found by a lookup, lies furthest back, whichever streams did
\* the lookups and however their steps interleave.
C23_LruBoundedEvictsOldest ==
    /\ [](/\ Len(geocode_cache) <= maxsize
          /\ Cardinality(CacheKeys) = Len(geocode_cache))
    /\ [][\A gone \in CacheKeys \ CacheKeys' :
            /\ Len(geocode_cache) = maxsize
            /\ Len(geocode_cache') = maxsize
            /\ Cardinality(CacheKeys' \ CacheKeys) = 1
            /\ CacheKeys \ CacheKeys' = {gone}
            /\ \A kept \in CacheKeys \ {gone} :
                   LastUse(gone) < LastUse(kept)]_vars

\* C23 witness: "x" and "y" were stored, in this order, by one stream; a
\* lookup of the other stream then found "x"; storing "m" into the full
\* cache has made "y" leave, not "x"
C23_Witness ==
    /\ cache_uses = << <<"x">>, <<"y">>, <<"x">>, <<"m">> >>
    /\ geocode_calls[1].stream = geocode_calls[2].stream
    /\ geocode_calls[3].stream # geocode_calls[1].stream
    /\ CacheKeys = { <<"x">>, <<"m">> }
    /\ Len(geocode_cache) = maxsize

----------------------------------------------------------------------------
(* Empty topic or location *)

\* the tweet in the hand of stream s has an empty topic or location
EmptyComponent(s) == cur[s].topic = <<>> \/ cur[s].location = <<>>

\* C24: a tweet with coordinates whose topic or location is the empty
\* string is folded like any other: the fold is always taken, under the key
\* made of the empty component, "_" and the other component; the first
\* such tweet makes the cluster of that key and each further one adds one to
\* its count and its popularity to the score, and the tweet becomes a
\* member.
C24_EmptyComponentFolded ==
    /\ [](\A s \in StreamIds :
            (pc[s] = "fold" /\ EmptyComponent(s)) =>
                /\ cur[s].coords # None
                /\ ENABLED (_process_tweet(s) /\ folded'[s] # folded[s]))
    /\ [][\A s \in StreamIds :
            (pc[s] = "fold" /\ pc'[s] # "fold" /\ EmptyComponent(s)) =>
                LET key == Lower(cur[s].topic) \o <<"_">>
                               \o Lower(cur[s].location)
                IN /\ key \in DOMAIN clusters'[s]
                   /\ Len(folded'[s]) = Len(folded[s]) + 1
                   /\ folded'[s][Len(folded'[s])].key = key
                   /\ folded'[s][Len(folded'[s])].tweet_id = cur[s].tweet_id
                   /\ clusters'[s][key].tweet_count =
                          (IF key \in DOMAIN clusters[s]
                           THEN clusters[s][key].tweet_count ELSE 0) + 1
                   /\ clusters'[s][key].popularity_score =
                          (IF key \in DOMAIN clusters[s]
                           THEN clusters[s][key].popularity_score ELSE 0)
                              + Popularity(cur[s])
                   /\ DOMAIN clusters[s] \subseteq DOMAIN clusters'[s]]_vars
    /\ [](\A s \in StreamIds : \A key \in DOMAIN clusters[s] :
            (Head(key) = "_" /\ pc[s] \notin {"members", "emit"}) =>
                { clusters[s][key].top_tweets[n].tweet_id :
                      n \in DOMAIN clusters[s][key].top_tweets }
                    = FoldedUnder(s, key))

\* C24 witness: both tweets came with the empty topic and the location "m";
\* they are the two members of the cluster of key "_m"
C24_Witness ==
    /\ pc[1] = "pull"
    /\ DOMAIN clusters[1] = { <<"_", "m">> }
    /\ clusters[1][<<"_", "m">>].tweet_count = 2
    /\ clusters[1][<<"_", "m">>].topic = <<>>
    /\ clusters[1][<<"_", "m">>].centroid_lat = 950000 + 345
    /\ Len(cluster_queues[1]) = 2

----------------------------------------------------------------------------
(* Cluster ids *)

\* the fold that made the cluster of the key
FirstFold(s, key) ==
    CHOOSE n \in DOMAIN folded[s] :
        /\ folded[s][n].key = key
        /\ \A m \in 1..(n - 1) : folded[s][m].key # key

\* the number of clusters the stream had made before the one of the key
Ordinal(s, key) ==
    Cardinality({ folded[s][m].key : m \in 1..(FirstFold(s, key) - 1) })

\* C25: the id of a cluster is the id of its stream, "_", and the number of
\* clusters made in the stream before it; it stays as it is while the
\* cluster is updated, no two clusters of a stream have the same id, every
\* cluster counts at least one tweet, and while the stream is Running no
\* cluster key goes away.
C25_ClusterIdOrdinal ==
    /\ [](\A s \in StreamIds :
            /\ \A key \in DOMAIN clusters[s] :
                  /\ clusters[s][key].cluster_id = <<s, Ordinal(s, key)>>
                  /\ clusters[s][key].tweet_count >= 1
            /\ \A k1, k2 \in DOMAIN clusters[s] :
                  clusters[s][k1].cluster_id = clusters[s][k2].cluster_id
                      => k1 = k2)
    /\ [][\A s \in StreamIds :
            /\ \A key \in DOMAIN clusters[s] \cap DOMAIN clusters'[s] :
                  clusters'[s][key].cluster_id = clusters[s][key].cluster_id
            /\ (status[s] = "Running" /\ status'[s] = "Running")
                  => DOMAIN clusters[s] \subseteq DOMAIN clusters'[s]]_vars

\* C25 witness: a Running stream with two clusters, of ids (1, 0) and
\* (1, 1); the first has been updated after the second was made
C25_Witness ==
    /\ status[1] = "Running"
    /\ Len(folded[1]) = 3
    /\ folded[1][1].key = folded[1][3].key
    /\ folded[1][1].key # folded[1][2].key
    /\ clusters[1][folded[1][1].key].cluster_id = <<1, 0>>
    /\ clusters[1][folded[1][1].key].tweet_count = 2
    /\ clusters[1][folded[1][2].key].cluster_id = <<1, 1>>
    /\ pc[1] = "pull"

----------------------------------------------------------------------------
(* Members *)

\* the records folded under the key
FoldedRecords(s, key) ==
    { folded[s][n].record : n \in { m \in DOMAIN folded[s] :
                                        folded[s][m].key = key } }

\* the tweets of the list are in the order of top_tweets
Ranked(tweets) ==
    \A n, m \in DOMAIN tweets :
        n < m =>
            \/ Popularity(tweets[n]) > Popularity(tweets[m])
            \/ /\ Popularity(tweets[n]) = Popularity(tweets[m])
               /\ tweets[n].timestamp <= tweets[m].timestamp

\* C26 as stated: after every fold top_tweets is sorted by popularity,
\* descending, equally popular tweets by timestamp, holds at most MaxMembers
\* tweets, and these are the top-ranked ones of all tweets folded into the
\* cluster.
C26_MembersBounded ==
    \A s \in StreamIds : \A key \in DOMAIN clusters[s] :
        pc[s] # "members" =>
            LET tops == clusters[s][key].top_tweets
                mem == { tops[n] : n \in DOMAIN tops }
            IN /\ Ranked(tops)
               /\ Len(tops) <= MaxMembers
               /\ mem \subseteq FoldedRecords(s, key)
               /\ \A r \in FoldedRecords(s, key) \ mem :
                      \A q \in mem : Before(q, r)

\* C26 amended: after every fold top_tweets is sorted by popularity,
\* descending, equally popular tweets by timestamp, earlier first, and it
\* holds every tweet folded into the cluster, once: the list is not cut
\* down and is as long as the tweet count.
C26_MembersSortedAll ==
    \A s \in StreamIds : \A key \in DOMAIN clusters[s] :
        pc[s] # "members" =>
            LET tops == clusters[s][key].top_tweets
            IN /\ Ranked(tops)
               /\ { tops[n] : n \in DOMAIN tops } = FoldedRecords(s, key)
               /\ Len(tops) = Cardinality(FoldedRecords(s, key))
               /\ Len(tops) = clusters[s][key].tweet_count

\* C26 witness: a cluster of more than MaxMembers tweets, all of them in
\* top_tweets; the two equally popular ones arrived newer first and stand
\* older first
C26_Witness ==
    \E key \in DOMAIN clusters[1] :
        LET tops == clusters[1][key].top_tweets IN
        /\ pc[1] = "pull"
        /\ Len(tops) = MaxTweets + 2
        /\ Len(tops) > MaxMembers
        /\ \E n \in 1..(Len(tops) - 1) :
              /\ Popularity(tops[n]) = Popularity(tops[n + 1])
              /\ tops[n].timestamp < tops[n + 1].timestamp
              /\ \E a, b \in DOMAIN folded[1] :
                    /\ a < b
                    /\ folded[1][a].tweet_id = tops[n + 1].tweet_id
                    /\ folded[1][b].tweet_id = tops[n].tweet_id

----------------------------------------------------------------------------
(* One event per fold *)

\* the events of the queue up to position m that are about the same cluster
\* as the event at m
EarlierOfCluster(s, m) ==
    { n \in 1..m : cluster_queues[s][n].cluster_id
                       = cluster_queues[s][m].cluster_id }

\* C27: every fold ends with one event, and there is no event without a
\* fold: the events published are as many as the folds done, one more fold
\* than events only while a fold is under way; the event of a fold carries
\* the cluster of the folded tweet as the fold has left it (the tweet
\* counted and among the members), and the events of one cluster carry the
\* counts 1, 2, 3, ... in the order of their publication.
C27_OneEventPerFold ==
    /\ [](\A s \in StreamIds :
            /\ emitted[s] <= Len(folded[s])
            /\ Len(folded[s]) <= emitted[s] + 1
            /\ pc[s] \notin {"members", "emit"} => emitted[s] = Len(folded[s])
            /\ Len(cluster_queues[s]) = emitted[s]
            /\ \A m \in DOMAIN cluster_queues[s] :
                  cluster_queues[s][m].tweet_count
                      = Cardinality(EarlierOfCluster(s, m)))
    /\ [][\A s \in StreamIds :
            (emitted'[s] # emitted[s] \/ cluster_queues'[s] # cluster_queues[s])
              => /\ emitted'[s] = emitted[s] + 1
                 /\ Len(folded[s]) = emitted'[s]
                 /\ folded'[s] = folded[s]
                 /\ clusters'[s] = clusters[s]
                 /\ LET f == folded[s][Len(folded[s])]
                        c == clusters[s][f.key]
                    IN /\ cluster_queues'[s] = Append(cluster_queues[s], c)
                       /\ c.tweet_count = Cardinality(FoldedUnder(s, f.key))
                       /\ \E n \in DOMAIN c.top_tweets :
                              c.top_tweets[n] = f.record]_vars

\* C27 witness: three folds, the third into the cluster of the first, and
\* three events: counts 1 and 1 for the two clusters, then count 2
C27_Witness ==
    /\ Len(folded[1]) = 3
    /\ folded[1][3].key = folded[1][1].key
    /\ folded[1][2].key # folded[1][1].key
    /\ emitted[1] = 3
    /\ Len(cluster_queues[1]) = 3
    /\ cluster_queues[1][1].tweet_count = 1
    /\ cluster_queues[1][2].tweet_count = 1
    /\ cluster_queues[1][3].tweet_count = 2
    /\ cluster_queues[1][3].cluster_id = cluster_queues[1][1].cluster_id

----------------------------------------------------------------------------
(* Order of the folds *)

\* when the scraper yielded the tweet
PulledAt(s, i) == CHOOSE n \in DOMAIN pulled[s] : pulled[s][n] = i

\* C28: a stream folds its tweets one at a time and in the order in which
\* it pulled them: the tweets folded are in the order of their pulls; a fold
\* begins only when every fold before it has been published, and it is the
\* fold of the tweet pulled last; a tweet is pulled only when no tweet is in
\* hand, whatever the other stream does and however long the geocoding
\* of a tweet waits.
C28_FoldsInPullOrder ==
    /\ [](\A s \in StreamIds :
            /\ \A n, m \in DOMAIN folded[s] :
                  n < m => PulledAt(s, folded[s][n].tweet_id)
                              < PulledAt(s, folded[s][m].tweet_id)
            /\ \A n, m \in DOMAIN pulled[s] :
                  pulled[s][n] = pulled[s][m] => n = m)
    /\ [][\A s \in StreamIds :
            /\ folded'[s] # folded[s] =>
                  /\ emitted[s] = Len(folded[s])
                  /\ Len(folded'[s]) = Len(folded[s]) + 1
                  /\ folded'[s][Len(folded'[s])].tweet_id
                         = pulled[s][Len(pulled[s])]
            /\ pulled'[s] # pulled[s] =>
                  /\ emitted[s] = Len(folded[s])
                  /\ cur[s] = NoTweet]_vars

\* C28 witness: stream 1 pulled tweet 2, then tweet 1, and sent a request
\* to Nominatim after the one of stream 2, the rate limiter having made it
\* wait; it has folded and published both tweets, tweet 2 first
C28_Witness ==
    /\ pulled[1] = <<2, 1>>
    /\ Len(folded[1]) = 2
    /\ folded[1][1].tweet_id = 2
    /\ folded[1][2].tweet_id = 1
    /\ emitted[1] = 2
    /\ Len(geocode_calls) >= 2
    /\ geocode_calls[1].stream = 2
    /\ geocode_calls[2].stream = 1
    /\ pc[2] \in {"geocode", "acquire"}

----------------------------------------------------------------------------
(* Stop and termination *)

\* C29 as stated: after a StopStream that succeeded the stream reaches
\* Stopped and leaves the registry, also when an enrichment call hangs as
\* the stop arrives (the call times out); a tweet that comes to the loop's
\* check after the stop request is neither enriched nor folded, so that at
\* most the tweet in hand at the request is folded after it.
C29_StopTerminates ==
    /\ \A s \in StreamIds :
          [](stopResult = [stream_id |-> s, success |-> TRUE]
                => <>(status[s] = "Stopped" /\ s \notin active_streams))
    /\ [][\A s \in StreamIds :
            (status[s] # "Running" /\ pc[s] = "check" /\ pc'[s] # "check")
                => /\ pc'[s] = "done"
                   /\ folded'[s] = folded[s]
                   /\ enriched'[s] = enriched[s]]_vars

----------------------------------------------------------------------------
(* Isolation of the streams *)

\* a step of stream a: of its scraper, its thread, its source, or a stop
\* request for it
StepOf(a) ==
    \/ \E i \in TweetIds : scrape_nitter_search(a, i)
    \/ _run_stream(a, OneTopic, OneLocation)
    \/ _process_tweet(a)
    \/ update_cluster(a)
    \/ cluster_callback(a)
    \/ FatalSourceError(a)
    \/ StopStream(a)
    \/ ReleaseStream(a)

\* what the subscribers of stream b hold
SubQueues(b) ==
    [u \in { v \in SubIds : subs[v].stream = b } |-> subs[u]]

\* the tweets in the clusters of the stream
ClusteredIds(s) ==
    UNION { { clusters[s][k].top_tweets[n].tweet_id :
                n \in DOMAIN clusters[s][k].top_tweets } :
            k \in DOMAIN clusters[s] }

\* C30: the streams are isolated.  A step of stream a (pulling, passing over
\* a seen id, enriching, folding, publishing, a source error, a stop
\* request, its release) leaves all of stream b as it is: seen_ids,
\* clusters, status, queue, and what b's subscribers hold; so does the
\* delivery of a cluster to a subscriber of a.  Each stream deduplicates and
\* clusters by itself: its seen_ids are the ids it pulled and its clusters
\* hold the tweets it folded (all of them once a fold is through), and an
\* id the other stream has seen is yielded to a stream that has not.
C30_StreamsIsolated ==
    /\ [][\A a, b \in StreamIds :
            (a # b /\ StepOf(a))
                => /\ StreamState(b)' = StreamState(b)
                   /\ SubQueues(b)' = SubQueues(b)]_vars
    /\ [][\A u \in SubIds, b \in StreamIds :
            ((cluster_event_generator(u) \/ generator_end(u))
                 /\ b # subs[u].stream)
                => /\ StreamState(b)' = StreamState(b)
                   /\ SubQueues(b)' = SubQueues(b)]_vars
    /\ [](\A s \in StreamIds :
            /\ seen_ids[s] = { pulled[s][n] : n \in DOMAIN pulled[s] }
            /\ ClusteredIds(s) \subseteq FoldedIds(s)
            /\ (s \in active_streams /\ pc[s] # "members")
                   => ClusteredIds(s) = FoldedIds(s))
    /\ [](\A s \in StreamIds, i \in TweetIds :
            (pc[s] = "pull" /\ i \notin seen_ids[s])
                => ENABLED (scrape_nitter_search(s, i)
                              /\ pulled'[s] = Append(pulled[s], i)))

\* both streams have folded tweet 1, each into a cluster of its own under
\* the same key; stream 1 has ended since, stream 2 runs on to tweet 2
C30_Witness ==
    /\ 1 \in FoldedIds(1)
    /\ 1 \in FoldedIds(2)
    /\ DOMAIN clusters[1] = DOMAIN clusters[2]
    /\ DOMAIN clusters[1] # {}
    /\ clusters[1] # clusters[2]
    /\ status[1] = "Stopped"
    /\ status[2] = "Running"
    /\ seen_ids[1] = {1}
    /\ seen_ids[2] = {1, 2}

----------------------------------------------------------------------------
(* Ownership of the cluster map *)

RECURSIVE SumPopularity(_)
SumPopularity(tweets) ==
    IF tweets = <<>> THEN 0
    ELSE Popularity(Head(tweets)) + SumPopularity(Tail(tweets))

\* the cluster as a fold leaves it: counters and member list agree
Whole(c) ==
    /\ c.tweet_count = Len(c.top_tweets)
    /\ c.popularity_score = SumPopularity(c.top_tweets)

\* the stream is between two steps of a fold
FoldInProgress(s) == pc[s] = "members"

\* the clusters the subscriber was sent
Observed(u) ==
    { subs[u].events[n].cluster :
        n \in { m \in DOMAIN subs[u].events :
                  subs[u].events[m].type = "cluster_update" } }

----------------------------------------------------------------------------
(* Running mean *)

\* the records folded under the key, in the order of their folds
FoldedOf(s, key) ==
    SelectSeq(folded[s], LAMBDA f : f.key = key)

RECURSIVE SumFolded(_, _)
SumFolded(fs, d) ==
    IF fs = <<>> THEN 0
    ELSE Head(fs).record.coords[d] + SumFolded(Tail(fs), d)

\* the centroid without the offset of the key
baseLat(s, k) == clusters[s][k].centroid_lat - offset_lat(k)
baseLon(s, k) == clusters[s][k].centroid_lon - offset_lon(k)

\* C32: after every fold the base centroid of the cluster, updated with the
\* post-increment count, is the arithmetic mean of the coordinates of all
\* the records folded into it (base * count = sum of the coordinates), for
\* records of differing coordinates in any order; each update moves the
\* base by (coordinate - base) / count, count being the count after the
\* increment.
C32_BaseIsMean ==
    /\ [](\A s \in StreamIds :
            ~FoldInProgress(s) =>
                \A k \in DOMAIN clusters[s] :
                    /\ clusters[s][k].tweet_count = Len(FoldedOf(s, k))
                    /\ baseLat(s, k) * clusters[s][k].tweet_count
                          = SumFolded(FoldedOf(s, k), 1)
                    /\ baseLon(s, k) * clusters[s][k].tweet_count
                          = SumFolded(FoldedOf(s, k), 2))
    /\ [][\A s \in StreamIds :
            (pc[s] = "members" /\ pc'[s] = "emit") =>
                LET k == cluster_key(cur[s].topic, cur[s].location) IN
                  /\ (baseLat(s, k)' - baseLat(s, k))
                          * clusters[s][k].tweet_count
                        = cur[s].coords[1] - baseLat(s, k)
                  /\ (baseLon(s, k)' - baseLon(s, k))
                          * clusters[s][k].tweet_count
                        = cur[s].coords[2] - baseLon(s, k)]_vars

\* three records of three different positions are folded into the
\* cluster; its base is their mean, none of the three
C32_Witness ==
    /\ pc[1] = "pull"
    /\ \E k \in DOMAIN clusters[1] :
          /\ clusters[1][k].tweet_count = 3
          /\ { FoldedOf(1, k)[n].record.coords : n \in 1..3 } = MeanCoords
          /\ baseLat(1, k) = 950080
          /\ baseLon(1, k) = 3600020

----------------------------------------------------------------------------
(* last_seen *)

\* the timestamps of the records the cluster holds
MemberTimestamps(c) ==
    { c.top_tweets[n].timestamp : n \in DOMAIN c.top_tweets }

----------------------------------------------------------------------------
(* Heartbeats *)

\* the connection is open on a Running stream
OpenOnRunning(u) == subs[u].state = "open" /\ running(subs[u].stream)

\* C34: on every connection that stays open on a Running stream heartbeats
\* are sent again and again, also when the stream never publishes a cluster,
\* and on each of the open connections, not on some of them only.
C34_HeartbeatsKeepComing ==
    \A u \in SubIds :
        \/ []<>(~OpenOnRunning(u))
        \/ []<><<heartbeat(u)>>_vars

\* both connections are open on the Running stream, which has published
\* nothing, and a heartbeat was sent on each
C34_Witness ==
    /\ \A u \in SubIds : OpenOnRunning(u) /\ subs[u].heartbeats = 1
    /\ emitted[1] = 0
    /\ \A u \in SubIds : subs[u].events = <<[type |-> "connected"]>>

----------------------------------------------------------------------------
(* Map client *)

\* the positions in `received` of the cluster updates for the id
UpdatesFor(id) ==
    { n \in DOMAIN received :
        IsClusterUpdate(received[n]) /\ received[n].cluster.cluster_id = id }

\* C35: the clusters map of the map client holds, for every cluster_id that
\* came in a cluster_update since the last search started, the TweetCluster
\* made from the update received last for that id, and nothing else;
\* messages of other types, cluster_updates without a cluster and text that
\* does not parse leave the map as it is, and the start of a search empties
\* it.
C35_MapHoldsLatest ==
    /\ [](/\ DOMAIN mapClusters =
                { received[n].cluster.cluster_id :
                    n \in { m \in DOMAIN received :
                              IsClusterUpdate(received[m]) } }
           /\ \A id \in DOMAIN mapClusters :
                  \E n \in UpdatesFor(id) :
                      /\ \A m \in UpdatesFor(id) : m <= n
                      /\ mapClusters[id] = TweetClusterOf(received[n].cluster))
    /\ [][(startCall = "none" /\ startCall' = "pending")
              => mapClusters' = <<>>]_vars
    /\ [][(Len(received') = Len(received) + 1
              /\ ~IsClusterUpdate(received'[Len(received')]))
              => mapClusters' = mapClusters]_vars

\* in the second search of the client the map holds the second snapshot of
\* cluster "1_0", received after the first one and followed by text that
\* did not parse
C35_Witness ==
    /\ started = 2
    /\ Len(received) = 3
    /\ IsClusterUpdate(received[1])
    /\ IsClusterUpdate(received[2])
    /\ ~received[3].parses
    /\ received[1].cluster.cluster_id = "1_0"
    /\ received[2].cluster.cluster_id = "1_0"
    /\ received[1].cluster.tweet_count = 1
    /\ DOMAIN mapClusters = {"1_0"}
    /\ mapClusters["1_0"].count = 2
    /\ Len(mapClusters["1_0"].top_tweets) = 2

\* the streams the client started and never sent a stop_stream request for
Unstopped == (1..started) \ stop_sent

\* the EventSources that are open
OpenSources ==
    { k \in DOMAIN eventSources : eventSources[k].readyState = "open" }

\* C38: at most one stream started by the map client has not been sent a
\* stop_stream request, at most one EventSource is open, and whenever the
\* client sends start_stream every stream it started before has been sent
\* stop_stream.
C38_OneUnstoppedStream ==
    /\ Cardinality(Unstopped) <= 1
    /\ Cardinality(OpenSources) <= 1
    /\ (startCall = "pending" => Unstopped = {})

----------------------------------------------------------------------------
(* Pipeline screen *)

\* C36: for every input of the pipeline screen at most one analysis request
\* is sent, however often the mount effect runs.
C36_AnalysisSentOnce ==
    \A n \in DOMAIN pipelineInputs :
        SentFor(InputKey(pipelineInputs[n])) <= 1

\* two runs of the mount effect have gone through three inputs, and each
\* input was sent for analysis once
C36_Witness ==
    /\ Len(runs) = 2
    /\ Len(pipelineInputs) = 3
    /\ \A r \in DOMAIN runs :
          ~runs[r].awaiting /\ runs[r].at = Len(AnalysisOrder) + 1
    /\ \A n \in DOMAIN pipelineInputs :
          SentFor(InputKey(pipelineInputs[n])) = 1

\* every input has had its analysis request sent and answered
AnalysesFinished ==
    /\ hasAnyInput
    /\ \A n \in DOMAIN pipelineInputs :
          SentFor(InputKey(pipelineInputs[n])) > 0
    /\ \A r \in DOMAIN runs : ~runs[r].awaiting

\* every input has a stored result and none is being analyzed
AllStored ==
    \A n \in DOMAIN pipelineInputs :
        /\ pipelineInputs[n].id \in analysisResults[pipelineInputs[n].type]
        /\ pipelineInputs[n].id \notin analyzing[pipelineInputs[n].type]

\* the fusion request is sent at most once, and only when there is an input
\* and every input has a stored result and is not being analyzed; the
\* pipeline is marked complete only by a fusion response that succeeded
C37_FusionSafety ==
    /\ [](fusion_requests <= 1)
    /\ [][fusion_requests' # fusion_requests
              => Len(pipelineInputs) > 0 /\ AllStored]_vars
    /\ [](isComplete => fusionResults /\ fusion_requests = 1)
    /\ [][isComplete' # isComplete
              => fusionCall = "pending" /\ fusionResults']_vars

\* the fusion request has been answered with success after three analyses
C37_SafetyWitness ==
    /\ Len(pipelineInputs) = 3
    /\ isComplete
    /\ fusionCall = "none"
    /\ ~isFusing

\* C37: the fusion request is sent at most once, only when there is at least
\* one input and every input has a stored analysis result and is no longer
\* being analyzed; the pipeline is marked complete only after the fusion
\* response succeeded; and once every analysis request has finished, the
\* fusion request is eventually sent.
C37_FusionAfterAnalyses ==
    /\ C37_FusionSafety
    /\ AnalysesFinished ~> (fusion_requests > 0)

----------------------------------------------------------------------------
(* Landing page *)

\* the input is an image or a video that came with a file
FileInput(input) == input.type \in {"image", "video"} /\ input.file

\* C39: the landing page navigates to the pipeline only when every upload of
\* the invocation has succeeded, and every image or video input with a file
\* that it hands to the pipeline carries a file_id; when an upload fails
\* there is no navigation, the input list stays as it is and isUploading
\* is false again.
C39_NavigateAfterUploads ==
    /\ [](route = "/pipeline"
            => /\ navState = pipelineInputs
               /\ \A n \in DOMAIN pipelineInputs :
                     FileInput(pipelineInputs[n])
                         => pipelineInputs[n].file_id # 0)
    /\ [][route' # route
              => /\ analyzeCall = "timer"
                 /\ \A n \in DOMAIN uploads : uploads[n] \in {"none", "done"}
                 /\ \A n \in DOMAIN closureInputs :
                       ~NeedsUpload(closureInputs[n])]_vars
    /\ [][(\E n \in DOMAIN uploads :
               uploads[n] = "pending" /\ n \in DOMAIN uploads'
                   /\ uploads'[n] = "failed")
              => inputs' = inputs /\ ~isUploading' /\ route' = "/"
                     /\ analyzeCall' = "none"]_vars
    /\ [](\A n \in DOMAIN uploads :
              uploads[n] = "failed"
                  => route = "/" /\ ~isUploading /\ analyzeCall = "none")

\* the pipeline has been handed an image and a video with their file ids,
\* after an earlier attempt in which one upload succeeded and one failed
C39_Witness ==
    /\ route = "/pipeline"
    /\ files_stored = 3
    /\ Len(pipelineInputs) = 2
    /\ pipelineInputs[1].type = "image"
    /\ pipelineInputs[2].type = "video"
    /\ pipelineInputs[1].file_id # 0
    /\ pipelineInputs[2].file_id # 0

\* an upload has failed: no navigation, isUploading false, inputs as before
C39_FailureWitness ==
    /\ \E n \in DOMAIN uploads : uploads[n] = "failed"
    /\ \E n \in DOMAIN uploads : uploads[n] = "done"
    /\ route = "/"
    /\ ~isUploading
    /\ Len(inputs) = 3

====
